---- MODULE Spec2Model ----
(***************************************************************************)
(* Orchestration state machine of the kno2gether WebRTC dental assistant.  *)
(* One session (room) of one of the four entrypoint variants is modelled:  *)
(*   "helpdesk"  src/AIAssistedCustomerHelpDesk.py                         *)
(*   "multi"     src/AIAssistedCustomerHelpDeskMultiFunction.py            *)
(*   "knolabs"   src/KnolabsDentalAssistant.py                             *)
(*   "agent"     src/agent.py                                              *)
(* The asyncio event loop is single threaded: an event handler or the part *)
(* of a task between two suspension points is one atomic action.  Tasks    *)
(* created with asyncio.create_task start in creation order (ready), a     *)
(* follow-up sleeps (sleeping) before it looks the booking up.             *)
(*                                                                         *)
(* Texts are sequences of one-character strings, so that lower(), the      *)
(* substring test and the email pattern are computed as the code computes  *)
(* them.  A literal of the source that no test inspects is a sequence of   *)
(* one element, the literal itself (Lit).                                  *)
(***************************************************************************)
EXTENDS Integers, Sequences, FiniteSets, TLC

VARIABLES
    pc,                   \* where the entrypoint is: "wait_for_room", "session", "returned"
    retries,              \* the retries counter of wait_for_room
    handlers,             \* the events a handler is registered for
    variant,              \* which entrypoint runs this session
    room_name,            \* ctx.room.name
    connected,            \* ctx.room.connection_state == CONN_CONNECTED
    human_in_room,        \* the SIP participant "Human Agent" is in the room
    human_agent_present,  \* the entrypoint's human_agent_present flag
    latest_image,         \* the entrypoint's latest_image (0 is None)
    chat_context,         \* chat_context.messages
    ready,                \* created tasks that have not started, in order
    sleeping,             \* emails of the follow-ups inside asyncio.sleep(20)
    requests,             \* HTTP requests issued so far, per endpoint
    sip_requests,         \* CreateSIPParticipantRequests sent, with outcome
    llm_calls,            \* number of gpt.chat(chat_ctx=...) invocations
    events,               \* number of environment events delivered so far
    last                  \* the step taken last: handler or task, argument, exception

vars == <<pc, retries, handlers, variant, room_name, connected, human_in_room,
          human_agent_present, latest_image, chat_context, ready, sleeping,
          requests, sip_requests, llm_calls, events, last>>

----------------------------------------------------------------------------
(* Bounds of the model.                                                    *)

MaxEvents == 2
MaxFrames == 2
MaxCalls == 2
MaxTurns == 1
MaxParticipants == 2
MaxPublications == 2
MaxNow == 20

----------------------------------------------------------------------------
(* Texts.                                                                  *)

Lit(s) == <<s>>

UpperCase == <<"A","B","C","D","E","F","G","H","I","J","K","L","M",
               "N","O","P","Q","R","S","T","U","V","W","X","Y","Z">>
LowerCase == <<"a","b","c","d","e","f","g","h","i","j","k","l","m",
               "n","o","p","q","r","s","t","u","v","w","x","y","z">>

\* str.lower() on one character
LowerChar(c) ==
    IF \E i \in 1..26 : UpperCase[i] = c
    THEN LowerCase[CHOOSE i \in 1..26 : UpperCase[i] = c]
    ELSE c

\* str.lower()
Lower(s) == [i \in 1..Len(s) |-> LowerChar(s[i])]

\* Python's  sub in s
Contains(s, sub) ==
    \E i \in 0..(Len(s) - Len(sub)) :
        \A j \in 1..Len(sub) : s[i + j] = sub[j]

\* bool(x) of a str or of None
Truthy(s) == s # <<"<None>">> /\ Len(s) > 0

NoAt(s, lo, hi) == \A i \in lo..hi : s[i] # "@"

\* re.match(r"[^@]+@[^@]+\.[^@]+", email): the pattern is matched at the start
\* of the string and need not reach its end
ReMatch(email) ==
    \E a \in 2..Len(email) : \E d \in (a + 2)..Len(email) : \E e \in (d + 1)..Len(email) :
        /\ email[a] = "@"
        /\ email[d] = "."
        /\ NoAt(email, 1, a - 1)
        /\ NoAt(email, a + 1, d - 1)
        /\ NoAt(email, d + 1, e)

----------------------------------------------------------------------------
(* Configuration read from the environment.                                *)

HUMAN_AGENT_PHONE == "HUMAN_AGENT_PHONE"
Rooms == {"dental-room"}

Variants == {"helpdesk", "multi", "knolabs", "agent"}
Dental == {"helpdesk", "multi", "knolabs"}
Escalating == {"helpdesk", "multi"}

----------------------------------------------------------------------------
(* The callable functions (the FunctionContext classes).  Each returns its *)
(* result and the URL it sent one HTTP request to (NoRequest: it sent      *)
(* none).  outcome is what the HTTP collaborator did with the request:     *)
(* "2xx", "non2xx" (raise_for_status raises) or "exception" (the request   *)
(* itself raises); both failures are requests.RequestException.            *)

Outcomes == {"2xx", "non2xx", "exception"}

NoRequest == Lit("<no request>")
WEBHOOK_URL == Lit("WEBHOOK_URL")
BOOK_APPOINTMENT_ENDPOINT == Lit("BOOK_APPOINTMENT_ENDPOINT")
\* f"{os.getenv('CRM_CONTACT_LOOKUP_ENDPOINT')}?email={email}"
LookupUrl(email) == Lit("CRM_CONTACT_LOOKUP_ENDPOINT") \o Lit("?email=") \o email

PyNone == Lit("<None>")

CALL_HUMAN_AGENT == Lit("call_human_agent")

EmailIncorrect == Lit("The email address seems incorrect. Please provide a valid one.")

BookingLinkSent(v, email) ==
    IF v = "agent"
    THEN Lit("Appointment booking link sent to ") \o email \o Lit(". Please check your email.")
    ELSE Lit("Dental appointment booking link sent to ") \o email \o Lit(". Please check your email.")

BookingError(v) ==
    IF v = "agent"
    THEN Lit("There was an error booking your appointment. Please try again later.")
    ELSE Lit("There was an error booking your dental appointment. Please try again later.")

book_appointment(v, email, name, outcome) ==
    IF ~ReMatch(email)
    THEN [result |-> EmailIncorrect, endpoint |-> NoRequest]
    ELSE [result |-> IF outcome = "2xx" THEN BookingLinkSent(v, email) ELSE BookingError(v),
          endpoint |-> WEBHOOK_URL]

BOOKED_TAG == "livekit_appointment_booked"

StatusBooked(v) ==
    IF v = "agent"
    THEN Lit("The user has successfully booked the appointment.")
    ELSE Lit("You have successfully booked a dental appointment.")

StatusNotBooked(v) ==
    IF v = "agent"
    THEN Lit("The user has not yet booked an appointment. Please offer him help")
    ELSE Lit("You haven't booked a dental appointment yet. Would you like assistance in scheduling one?")

StatusError(v) ==
    IF v = "agent"
    THEN Lit("Error checking the appointment status.")
    ELSE Lit("Error checking the dental appointment status.")

\* dict.get(key, default)
Get(d, key, default) == IF key \in DOMAIN d THEN d[key] ELSE default

InSeq(x, s) == \E i \in 1..Len(s) : s[i] = x

\* a scan that looks at the first contact only
HasBookedTag_first_contact(data) ==
    LET contacts == Get(data, "contacts", <<>>)
    IN  Len(contacts) > 0 /\ InSeq(BOOKED_TAG, Get(contacts[1], "tags", <<>>))

\* the scan of response.json(): data is the decoded body
HasBookedTag(data) ==
    LET contacts == Get(data, "contacts", <<>>)
    IN  \E i \in 1..Len(contacts) : InSeq(BOOKED_TAG, Get(contacts[i], "tags", <<>>))

\* a lookup that remembers it was asked before (hidden state between lookups)
check_appointment_status_remembering(v, email, outcome, data) ==
    [result |-> IF outcome # "2xx" THEN StatusError(v)
                ELSE IF HasBookedTag(data) \/ requests[LookupUrl(email)] > 0 THEN StatusBooked(v)
                ELSE StatusNotBooked(v),
     endpoint |-> LookupUrl(email)]

check_appointment_status(v, email, outcome, data) ==
    [result |-> IF outcome # "2xx" THEN StatusError(v)
                ELSE IF HasBookedTag(data) THEN StatusBooked(v)
                ELSE StatusNotBooked(v),
     endpoint |-> LookupUrl(email)]

urgent_keywords ==
    << <<"s","e","v","e","r","e"," ","p","a","i","n">>,
       <<"s","w","e","l","l","i","n","g">>,
       <<"b","l","e","e","d","i","n","g">>,
       <<"t","r","a","u","m","a">>,
       <<"k","n","o","c","k","e","d"," ","o","u","t">>,
       <<"b","r","o","k","e","n">> >>

UrgentResult(v) ==
    CASE v = "helpdesk" -> CALL_HUMAN_AGENT
      [] v = "multi" -> Lit("The issue needs urgent attention !!")
      [] OTHER -> Lit("Based on your description, this seems to be an urgent dental issue. I recommend seeking immediate dental care.")

NotUrgentResult ==
    Lit("Your dental issue doesn't appear to be immediately urgent, but it's still important to schedule an appointment soon for a proper evaluation.")

\* the keyword test without symptoms.lower()
assess_dental_urgency_case_sensitive(v, symptoms) ==
    [result |-> IF \E k \in 1..Len(urgent_keywords) : Contains(symptoms, urgent_keywords[k])
                THEN UrgentResult(v)
                ELSE NotUrgentResult,
     endpoint |-> NoRequest]

assess_dental_urgency(v, symptoms) ==
    [result |-> IF \E k \in 1..Len(urgent_keywords) : Contains(Lower(symptoms), urgent_keywords[k])
                THEN UrgentResult(v)
                ELSE NotUrgentResult,
     endpoint |-> NoRequest]

analyze_dental_image(v, user_msg) == [result |-> PyNone, endpoint |-> NoRequest]

EmergencyBookingError ==
    Lit("There was an error booking your emergency appointment. Please try again later.")

\* an emergency booking that signals the escalation whatever the request did
book_emergency_appointment_always(v, slot, email, outcome) ==
    [result |-> CALL_HUMAN_AGENT, endpoint |-> BOOK_APPOINTMENT_ENDPOINT]

book_emergency_appointment(v, slot, email, outcome) ==
    [result |-> IF outcome = "2xx" THEN CALL_HUMAN_AGENT ELSE EmergencyBookingError,
     endpoint |-> BOOK_APPOINTMENT_ENDPOINT]

\* os.getenv('CRM_CONTACT_ENDPOINT'), and f"{...}/{contact_id}"
CRM_CONTACT_ENDPOINT == Lit("CRM_CONTACT_ENDPOINT")
ContactUrl(contact_id) == CRM_CONTACT_ENDPOINT \o Lit("/") \o contact_id
APPOINTMENT_SLOTS_ENDPOINT == Lit("APPOINTMENT_SLOTS_ENDPOINT")

ContactSaved(contact_id) ==
    Lit("Customer data is saved with Customer Reference ID: ") \o contact_id
        \o Lit(". Please save this reference for later.")

ContactError ==
    Lit("There was an error creating your contact in our system. Please try again later.")

\* create_contact_in_crm: body is the decoded response; response.json()['contact']
\* and contact['id'] are inside the try, which catches RequestException only
create_contact_in_crm(v, email, name, outcome, body) ==
    IF outcome # "2xx"
    THEN [result |-> ContactError, endpoint |-> CRM_CONTACT_ENDPOINT, raised |-> "none"]
    ELSE IF "contact" \notin DOMAIN body \/ "id" \notin DOMAIN body.contact
    THEN [result |-> PyNone, endpoint |-> CRM_CONTACT_ENDPOINT, raised |-> "KeyError"]
    ELSE [result |-> ContactSaved(body.contact.id), endpoint |-> CRM_CONTACT_ENDPOINT,
          raised |-> "none"]

ContactUpdated ==
    Lit("I've now reported your problem to our system. Please note you've a right to erasure all your data kept with us securely as part of your rights ensured by GDPR. ")

ContactUpdateError ==
    Lit("There was an error updating your information in our system. Please try again later.")

update_contact_info(v, contact_id, issue_description, outcome) ==
    [result |-> IF outcome = "2xx" THEN ContactUpdated ELSE ContactUpdateError,
     endpoint |-> ContactUrl(contact_id), raised |-> "none"]

NoSlotFound == Lit("No Slot Found")
FirstSlot(first_slot) == Lit("The first available slot is ") \o first_slot

\* a window whose branches are exchanged
Window_swapped(urgency) ==
    IF urgency = Lit("emergency")
    THEN [startDate |-> 3 * 24, endDate |-> 3 * 24 + 7 * 24]
    ELSE [startDate |-> 0, endDate |-> 24]

\* the query window, in hours from now: start_date and end_date
Window(urgency) ==
    IF urgency = Lit("emergency")
    THEN [startDate |-> 0, endDate |-> 24]
    ELSE [startDate |-> 3 * 24, endDate |-> 3 * 24 + 7 * 24]

\* int(d.timestamp() * 1000) of a time d given in hours since the epoch
Timestamp(d) == d * 3600 * 1000

\* the query parameters startDate and endDate; now is datetime.now(), in hours
Params(now, urgency) ==
    [startDate |-> Timestamp(now + Window(urgency).startDate),
     endDate |-> Timestamp(now + Window(urgency).endDate)]

\* a slot search that goes on to the booking endpoint when it found nothing
find_appointment_slots_booking(v, urgency, outcome, slots) ==
    IF outcome = "2xx" /\ Len(slots) = 0
    THEN [result |-> NoSlotFound, endpoint |-> BOOK_APPOINTMENT_ENDPOINT, raised |-> "none"]
    ELSE [result |-> PyNone, endpoint |-> APPOINTMENT_SLOTS_ENDPOINT, raised |-> "none"]

\* find_appointment_slots: slots is the decoded response, a dict in the order
\* of its keys (a sequence of key and value); a value is a dict or a str
find_appointment_slots(v, urgency, outcome, slots) ==
    IF outcome # "2xx"
    THEN [result |-> PyNone, endpoint |-> APPOINTMENT_SLOTS_ENDPOINT, raised |-> "none"]
    ELSE IF Len(slots) = 0
    THEN [result |-> NoSlotFound, endpoint |-> APPOINTMENT_SLOTS_ENDPOINT, raised |-> "none"]
    ELSE LET first == slots[1].value IN
         IF "slots" \notin DOMAIN first
         THEN [result |-> PyNone, endpoint |-> APPOINTMENT_SLOTS_ENDPOINT,
               raised |-> IF "str" \in DOMAIN first THEN "TypeError" ELSE "KeyError"]
         ELSE IF Len(first.slots) = 0
         THEN [result |-> PyNone, endpoint |-> APPOINTMENT_SLOTS_ENDPOINT,
               raised |-> "IndexError"]
         ELSE [result |-> FirstSlot(first.slots[1]), endpoint |-> APPOINTMENT_SLOTS_ENDPOINT,
               raised |-> "none"]

\* track_publication.track is not None and isinstance(track, RemoteVideoTrack)
IsVideo(publication) == publication.track = "video"

\* the publication at which the inner loop of get_video_track breaks (0: the
\* loop runs to its end)
FirstVideo(publications) ==
    IF \E j \in 1..Len(publications) : IsVideo(publications[j])
    THEN CHOOSE j \in 1..Len(publications) :
             /\ IsVideo(publications[j])
             /\ \A k \in 1..(j - 1) : ~IsVideo(publications[k])
    ELSE 0

\* the participants for which the outer loop calls video_track.set_result:
\* break leaves the inner loop only
SetResults(participants) ==
    SelectSeq([i \in 1..Len(participants) |->
                  [participant |-> i, publication |-> FirstVideo(participants[i])]],
              LAMBDA s : s.publication > 0)

\* get_video_track(room): participants is room.remote_participants in order,
\* each the sequence of its track publications.  The first set_result resolves
\* the future, a second one raises asyncio.InvalidStateError; with no
\* set_result the await never ends.
get_video_track(participants) ==
    LET sets == SetResults(participants) IN
    IF Len(sets) = 0
    THEN [completes |-> FALSE, track |-> PyNone, raised |-> "none", set_results |-> 0]
    ELSE IF Len(sets) > 1
    THEN [completes |-> TRUE, track |-> PyNone, raised |-> "InvalidStateError",
          set_results |-> 2]
    ELSE [completes |-> TRUE,
          track |-> participants[sets[1].participant][sets[1].publication].sid,
          raised |-> "none", set_results |-> 1]

\* the name under which a variant registers its image function
ImageFunction(v) == IF v = "agent" THEN "provideImage" ELSE "analyze_dental_image"

\* the VoiceAssistant runs one call the language model asked for
Execute(v, call) ==
    CASE call.name = "book_appointment" ->
             book_appointment(v, call.arguments.email, call.arguments.name, call.outcome)
      [] call.name = "assess_dental_urgency" ->
             assess_dental_urgency(v, call.arguments.symptoms)
      [] call.name = "book_emergency_appointment" ->
             book_emergency_appointment(v, call.arguments.slot, call.arguments.email, call.outcome)
      [] OTHER -> analyze_dental_image(v, call.arguments.user_msg)

\* agents.llm.CalledFunction: the call with its result
Called(v, call) ==
    [name |-> call.name, arguments |-> call.arguments, result |-> Execute(v, call).result]

----------------------------------------------------------------------------
(* Tasks handed to asyncio.create_task.                                    *)

\* _answer(text, use_image, human_agent_present, ai_assistance_required); the
\* third and fourth are the PARAMETERS of _answer, which default to False
AnswerTask(text, use_image, hap, air) ==
    [kind |-> "answer", text |-> text, use_image |-> use_image,
     human_agent_present |-> hap, ai_assistance_required |-> air]

FollowUpTask(email) == [kind |-> "follow_up", email |-> email]

SipTask(phone_number, room) ==
    [kind |-> "sip", phone_number |-> phone_number, room_name |-> room]

HelpPhrase == <<"h","e","l","p"," ","m","e">>

ReEngagement ==
    Lit("Human Agent interaction completed. Politely ask if it was helpful and if user is happy to proceed with the in-person appointment.")

HumanIsComing ==
    Lit("Human assistance is coming. Please wait while I'm trying to connect you. I'll be here if you need me, just say my name.")

----------------------------------------------------------------------------
(* The handlers and _answer, as functions of what they read.               *)

\* a handler that does not test msg.message: it answers an empty message too
on_message_received_answering_empty(v, msg, hap) ==
    IF v \in Escalating /\ hap
    THEN IF Contains(Lower(msg), HelpPhrase)
         THEN <<AnswerTask(msg, FALSE, TRUE, TRUE)>>
         ELSE <<>>
    ELSE <<AnswerTask(msg, FALSE, FALSE, FALSE)>>

\* a handler that answers every message, whatever the flag
on_message_received_unguarded(v, msg, hap) ==
    IF Truthy(msg)
    THEN <<AnswerTask(msg, FALSE, FALSE, FALSE)>>
    ELSE <<>>

\* @chat.on("message_received"): the tasks it creates; hap is the flag
on_message_received(v, msg, hap) ==
    IF v \in Escalating
    THEN IF Truthy(msg) /\ ~hap
         THEN <<AnswerTask(msg, FALSE, FALSE, FALSE)>>
         ELSE IF Truthy(msg) /\ hap /\ Contains(Lower(msg), HelpPhrase)
         THEN <<AnswerTask(msg, FALSE, TRUE, TRUE)>>
         ELSE <<>>
    ELSE IF Truthy(msg)
         THEN <<AnswerTask(msg, FALSE, FALSE, FALSE)>>
         ELSE <<>>

\* an _answer that is silent whenever it is told a human is present
Silent_whenever_present(v, t) == t.human_agent_present

\* a multi-function _answer that tests the text and not its flag parameter
Silent_text_only(v, t) ==
    CASE v = "helpdesk" -> t.human_agent_present /\ ~t.ai_assistance_required
      [] v = "multi" -> /\ Contains(Lower(t.text), HelpPhrase)
                        /\ ~t.ai_assistance_required
      [] OTHER -> FALSE

\* the early return of _answer: it tests its own parameters
Silent(v, t) ==
    CASE v = "helpdesk" -> t.human_agent_present /\ ~t.ai_assistance_required
      [] v = "multi" -> /\ t.human_agent_present
                        /\ Contains(Lower(t.text), HelpPhrase)
                        /\ ~t.ai_assistance_required
      [] OTHER -> FALSE

\* a message that carries the first frame of the stream, not the latest
UserMessage_first_frame(v, t, image) ==
    [role |-> "user",
     content |-> IF t.use_image /\ image # 0 THEN <<t.text, [image |-> 1]>> ELSE <<t.text>>]

\* the ChatMessage _answer appends; image is latest_image when the task runs
UserMessage(v, t, image) ==
    IF v = "agent"
    THEN [role |-> "user", content |-> t.text]
    ELSE [role |-> "user",
          content |-> IF t.use_image /\ image # 0
                      THEN <<t.text, [image |-> image]>>
                      ELSE <<t.text>>]

\* an _answer that puts its message in front of the context
answer_prepending(v, t, image, messages) ==
    [messages |-> <<UserMessage(v, t, image)>> \o messages, llm |-> 1]

\* _answer up to its first suspension point (await assistant.say)
answer(v, t, image, messages) ==
    IF Silent(v, t)
    THEN [messages |-> messages, llm |-> 0]
    ELSE [messages |-> Append(messages, UserMessage(v, t, image)), llm |-> 1]

\* a handler that hands the flag to _answer, which then stays silent
on_customer_agent_finished_passing_flag(v, hap) ==
    IF v = "helpdesk"
    THEN [tasks |-> <<AnswerTask(ReEngagement, FALSE, hap, FALSE)>>, hap |-> hap]
    ELSE [tasks |-> <<>>, hap |-> hap]

\* @ctx.room.on("participant_disconnected"): only the helpdesk variant
\* registers it; the tasks it creates and the value it leaves in the flag
on_customer_agent_finished(v, hap) ==
    IF v = "helpdesk"
    THEN [tasks |-> <<AnswerTask(ReEngagement, FALSE, FALSE, FALSE)>>, hap |-> hap]
    ELSE [tasks |-> <<>>, hap |-> hap]

NoEffect(hap) == [tasks |-> <<>>, hap |-> hap, raised |-> "none"]

\* a follow-up scheduled only when the booking request succeeded
FollowUpFor_on_success(f, hap) ==
    LET email == Get(f.arguments, "email", PyNone)
    IN  [tasks |-> IF Truthy(email) /\ f.result \notin {BookingError("agent"), BookingError("helpdesk")}
                   THEN <<FollowUpTask(email)>> ELSE <<>>,
         hap |-> hap, raised |-> "none"]

\* the book_appointment branch: email = arguments.get("email"); if email: ...
FollowUpFor(f, hap) ==
    LET email == Get(f.arguments, "email", PyNone)
    IN  [tasks |-> IF Truthy(email) THEN <<FollowUpTask(email)>> ELSE <<>>,
         hap |-> hap, raised |-> "none"]

\* the analyze_dental_image branch
ImageFor(f, hap) ==
    [tasks |-> <<AnswerTask(Get(f.arguments, "user_msg", PyNone), TRUE, FALSE, FALSE)>>,
     hap |-> hap, raised |-> "none"]

\* create_sip_participant called with its arguments swapped
Escalate_swapped(v, f, hap, room) ==
    IF f.result = CALL_HUMAN_AGENT
    THEN [tasks |-> IF v = "multi"
                    THEN <<AnswerTask(HumanIsComing, FALSE, TRUE, TRUE),
                           SipTask(room, HUMAN_AGENT_PHONE)>>
                    ELSE <<SipTask(room, HUMAN_AGENT_PHONE)>>,
          hap |-> TRUE, raised |-> "none"]
    ELSE [tasks |-> <<AnswerTask(f.result, FALSE, FALSE, FALSE)>>,
          hap |-> hap, raised |-> "none"]

\* the branch of the helpdesk and multi handlers that hands the session over
Escalate(v, f, hap, room) ==
    IF f.result = CALL_HUMAN_AGENT
    THEN [tasks |-> IF v = "multi"
                    THEN <<AnswerTask(HumanIsComing, FALSE, TRUE, TRUE),
                           SipTask(HUMAN_AGENT_PHONE, room)>>
                    ELSE <<SipTask(HUMAN_AGENT_PHONE, room)>>,
          hap |-> TRUE, raised |-> "none"]
    ELSE [tasks |-> <<AnswerTask(f.result, FALSE, FALSE, FALSE)>>,
          hap |-> hap, raised |-> "none"]

\* the branches of the function_calls_finished handlers on the function they
\* picked: the tasks created, the value left in the flag, the exception raised
Dispatch(v, f, hap, room) ==
      CASE v = "helpdesk" ->
             ( CASE f.name = "assess_dental_urgency" -> Escalate(v, f, hap, room)
                 [] f.name = "book_appointment" -> FollowUpFor(f, hap)
                 [] f.name = "analyze_dental_image" -> ImageFor(f, hap)
                 [] OTHER -> NoEffect(hap) )
        [] v = "multi" ->
             ( CASE f.name = "book_emergency_appointment" -> Escalate(v, f, hap, room)
                 [] f.name = "book_appointment" -> FollowUpFor(f, hap)
                 [] f.name = "analyze_dental_image" -> ImageFor(f, hap)
                 [] OTHER -> NoEffect(hap) )
        [] v = "knolabs" ->
             \* "urgency_result = function.result": the name function is unbound
             ( CASE f.name = "assess_dental_urgency" ->
                        [tasks |-> <<>>, hap |-> hap, raised |-> "NameError"]
                 [] f.name = "book_appointment" -> FollowUpFor(f, hap)
                 [] f.name = "analyze_dental_image" -> ImageFor(f, hap)
                 [] OTHER -> NoEffect(hap) )
        [] OTHER ->
             \* agent.py: _answer(user_msg, use_image=True), and _answer takes text only
             IF Truthy(Get(f.arguments, "user_msg", PyNone))
             THEN [tasks |-> <<>>, hap |-> hap, raised |-> "TypeError"]
             ELSE FollowUpFor(f, hap)

\* a handler that picks the last of the called functions
on_function_calls_finished_last(v, called_functions, hap, room) ==
    IF Len(called_functions) = 0 THEN NoEffect(hap)
    ELSE Dispatch(v, called_functions[Len(called_functions)], hap, room)

\* @assistant.on("function_calls_finished"): the early return on an empty
\* list, then function = called_functions[0] and nothing else of the list
on_function_calls_finished(v, called_functions, hap, room) ==
    IF Len(called_functions) = 0 THEN NoEffect(hap)
    ELSE Dispatch(v, called_functions[1], hap, room)

----------------------------------------------------------------------------
(* Inputs of a session.                                                    *)

MsgPlain == <<"h","i">>
MsgHelp == <<"H","e","l","p"," ","m","e">>
MsgEmpty == <<>>
Messages == {MsgPlain, MsgHelp, MsgEmpty}

EmailValid == <<"b","@","x",".","c">>
EmailInvalid == <<"b","o","b">>
Emails == {EmailValid, EmailInvalid}

\* more strings given as email: with a second "@" after a prefix that matches,
\* with two "@" before the dot, without a dot, without a local part, with
\* nothing after the dot, with two dots, and the empty string
EmailStrings ==
    Emails \cup
    { <<"b","@","x",".","c","@","d">>,
      <<"a","@","b","@","c",".","d">>,
      <<"b","@","x">>,
      <<"@","x",".","c">>,
      <<"b","@","x",".">>,
      <<"b","@","x",".","c",".","d">>,
      <<>> }

SymUrgent == <<"B","l","e","e","d","i","n","g">>
SymMild == <<"a","c","h","e">>

PatientName == Lit("Bob")
Slot == Lit("2024-10-17T03:30:00+01:00")
ShowTeeth == <<"s","e","e">>
ContactId == Lit("c1")
Issue == Lit("toothache")

\* the decoded bodies the CRM lookup answers with
Bodies ==
    { [contacts |-> <<>>],
      [contacts |-> <<[tags |-> <<"new_dental_patient">>]>>],
      [contacts |-> <<[id |-> "c1"], [tags |-> <<"new_dental_patient", BOOKED_TAG>>]>>],
      [total |-> 0] }

\* what the language model may ask for in one turn of this variant
Calls(v) ==
    { [name |-> "book_appointment", arguments |-> [email |-> EmailValid, name |-> PatientName],
       outcome |-> o] : o \in Outcomes }
    \cup { [name |-> "book_appointment",
            arguments |-> [email |-> EmailInvalid, name |-> PatientName], outcome |-> "2xx"] }
    \cup { [name |-> ImageFunction(v), arguments |-> [user_msg |-> ShowTeeth], outcome |-> "2xx"] }
    \cup ( IF v \in Dental
           THEN { [name |-> "assess_dental_urgency", arguments |-> [symptoms |-> sy],
                   outcome |-> "2xx"] : sy \in {SymUrgent, SymMild} }
           ELSE {} )
    \cup ( IF v = "multi"
           THEN { [name |-> "book_emergency_appointment",
                   arguments |-> [slot |-> Slot, email |-> EmailValid], outcome |-> o] :
                  o \in Outcomes }
           ELSE {} )

Turns(v) == UNION { [1..n -> Calls(v)] : n \in 0..MaxCalls }

\* f"{LIVEKIT_SERVER_URL}/rooms/{room_name}"
RoomStatusUrl(name) == <<"LIVEKIT_SERVER_URL", "/rooms/", name>>

\* the URLs a session can send a request to
Endpoints ==
    {WEBHOOK_URL, BOOK_APPOINTMENT_ENDPOINT, CRM_CONTACT_ENDPOINT, ContactUrl(ContactId),
     APPOINTMENT_SLOTS_ENDPOINT}
    \cup {LookupUrl(e) : e \in EmailStrings}
    \cup {RoomStatusUrl(r) : r \in Rooms}

\* the events the entrypoint of a variant registers a handler for
Handlers(v) ==
    {"message_received", "function_calls_finished"}
    \cup (IF v = "helpdesk" THEN {"participant_disconnected"} ELSE {})

\* requests after the calls of one turn were run
Requested(v, calls, reqs) ==
    [e \in Endpoints |->
        reqs[e] + Cardinality({i \in 1..Len(calls) : Execute(v, calls[i]).endpoint = e})]

SystemMessage == [role |-> "system", content |-> Lit("persona")]

Step(ev, arg, raised) == [ev |-> ev, arg |-> arg, raised |-> raised]

----------------------------------------------------------------------------
(* The session.                                                            *)

\* a session that starts with the flag of the previous one
Init_human_present ==
    /\ variant \in Variants
    /\ room_name \in Rooms
    /\ pc = "session"
    /\ retries = 0
    /\ handlers = Handlers(variant)
    /\ connected = TRUE
    /\ human_in_room = FALSE
    /\ human_agent_present = TRUE
    /\ latest_image = 0
    /\ chat_context = <<SystemMessage>>
    /\ ready = <<>>
    /\ sleeping = <<>>
    /\ requests = [e \in Endpoints |-> 0]
    /\ sip_requests = <<>>
    /\ llm_calls = 0
    /\ events = 0
    /\ last = Step("entrypoint", PyNone, "none")

Init ==
    /\ variant \in Variants
    /\ room_name \in Rooms
    /\ pc = "session"
    /\ retries = 0
    /\ handlers = Handlers(variant)
    /\ connected = TRUE
    /\ human_in_room = FALSE
    /\ human_agent_present = FALSE
    /\ latest_image = 0
    /\ chat_context = <<SystemMessage>>
    /\ ready = <<>>
    /\ sleeping = <<>>
    /\ requests = [e \in Endpoints |-> 0]
    /\ sip_requests = <<>>
    /\ llm_calls = 0
    /\ events = 0
    /\ last = Step("entrypoint", PyNone, "none")

\* a chat message whose task is put in front of the tasks that wait
ChatMessage_front(msg) ==
    /\ connected
    /\ "message_received" \in handlers
    /\ events < MaxEvents
    /\ events' = events + 1
    /\ ready' = on_message_received(variant, msg, human_agent_present) \o ready
    /\ last' = Step("message_received", msg, "none")
    /\ UNCHANGED <<pc, retries, handlers, variant, room_name, connected, human_in_room,
                   human_agent_present, latest_image, chat_context, sleeping,
                   requests, sip_requests, llm_calls>>

\* a chat message arrives
ChatMessage(msg) ==
    /\ connected
    /\ "message_received" \in handlers
    /\ events < MaxEvents
    /\ events' = events + 1
    /\ ready' = ready \o on_message_received(variant, msg, human_agent_present)
    /\ last' = Step("message_received", msg, "none")
    /\ UNCHANGED <<pc, retries, handlers, variant, room_name, connected, human_in_room,
                   human_agent_present, latest_image, chat_context, sleeping,
                   requests, sip_requests, llm_calls>>

\* the VoiceAssistant runs the calls of one turn and emits function_calls_finished
FunctionCallsFinished(calls) ==
    /\ connected
    /\ events < MaxEvents
    /\ events' = events + 1
    /\ LET called == [i \in 1..Len(calls) |-> Called(variant, calls[i])]
           eff == on_function_calls_finished(variant, called, human_agent_present, room_name)
       IN  /\ requests' = Requested(variant, calls, requests)
           /\ ready' = ready \o eff.tasks
           /\ human_agent_present' = eff.hap
           /\ last' = Step("function_calls_finished", called, eff.raised)
    /\ UNCHANGED <<pc, retries, handlers, variant, room_name, connected, human_in_room,
                   latest_image, chat_context, sleeping, sip_requests, llm_calls>>

\* a remote participant leaves the room: the human agent, or another one
\* (the room may hold any number of remote participants)
ParticipantDisconnected(who) ==
    /\ connected
    /\ \/ who = "other" /\ events < MaxEvents /\ events' = events + 1
          /\ UNCHANGED human_in_room
       \/ who = "human" /\ human_in_room /\ human_in_room' = FALSE
          /\ UNCHANGED events
    /\ LET eff == on_customer_agent_finished(variant, human_agent_present)
       IN  /\ ready' = ready \o eff.tasks
           /\ human_agent_present' = eff.hap
    /\ last' = Step("participant_disconnected", who, "none")
    /\ UNCHANGED <<pc, retries, handlers, variant, room_name, connected, latest_image, chat_context, sleeping,
                   requests, sip_requests, llm_calls>>

\* the video stream delivers a frame: latest_image = event.frame
VideoFrame ==
    /\ connected
    /\ variant \in Dental
    /\ latest_image < MaxFrames
    /\ latest_image' = latest_image + 1
    /\ last' = Step("frame", latest_image + 1, "none")
    /\ UNCHANGED <<pc, retries, handlers, variant, room_name, connected, human_in_room,
                   human_agent_present, chat_context, ready, sleeping, requests,
                   sip_requests, llm_calls, events>>

\* the next task is an _answer: it runs up to await assistant.say
RunAnswer ==
    /\ Len(ready) > 0
    /\ Head(ready).kind = "answer"
    /\ LET r == answer(variant, Head(ready), latest_image, chat_context)
       IN  /\ chat_context' = r.messages
           /\ llm_calls' = llm_calls + r.llm
    /\ ready' = Tail(ready)
    /\ last' = Step("_answer", Head(ready), "none")
    /\ UNCHANGED <<pc, retries, handlers, variant, room_name, connected, human_in_room,
                   human_agent_present, latest_image, sleeping, requests,
                   sip_requests, events>>

\* a follow-up that is cancelled when it starts: its task ends without a sleep
StartFollowUp_cancelled ==
    /\ Len(ready) > 0
    /\ Head(ready).kind = "follow_up"
    /\ ready' = Tail(ready)
    /\ last' = Step("follow_up_appointment", Head(ready), "none")
    /\ UNCHANGED <<pc, retries, handlers, variant, room_name, connected, human_in_room,
                   human_agent_present, latest_image, chat_context, sleeping, requests,
                   sip_requests, llm_calls, events>>

\* the next task is a follow_up_appointment: it runs up to await asyncio.sleep(20)
StartFollowUp ==
    /\ Len(ready) > 0
    /\ Head(ready).kind = "follow_up"
    /\ sleeping' = Append(sleeping, Head(ready).email)
    /\ ready' = Tail(ready)
    /\ last' = Step("follow_up_appointment", Head(ready), "none")
    /\ UNCHANGED <<pc, retries, handlers, variant, room_name, connected, human_in_room,
                   human_agent_present, latest_image, chat_context, requests,
                   sip_requests, llm_calls, events>>

\* the sleep of the oldest follow-up ends: it looks the status up and creates
\* the _answer task it then awaits
WakeFollowUp(outcome, data) ==
    /\ Len(sleeping) > 0
    /\ LET email == Head(sleeping)
           status == check_appointment_status(variant, email, outcome, data)
       IN  /\ requests' = [requests EXCEPT ![status.endpoint] = @ + 1]
           /\ ready' = Append(ready, AnswerTask(status.result, FALSE, FALSE, FALSE))
           /\ last' = Step("check_appointment_status",
                           [email |-> email, result |-> status.result], "none")
    /\ sleeping' = Tail(sleeping)
    /\ UNCHANGED <<pc, retries, handlers, variant, room_name, connected, human_in_room,
                   human_agent_present, latest_image, chat_context, sip_requests,
                   llm_calls, events>>

\* the next task is create_sip_participant: the request is sent and succeeds
\* (the human agent joins the room) or raises inside the task
RunSip(ok) ==
    /\ Len(ready) > 0
    /\ Head(ready).kind = "sip"
    /\ sip_requests' = Append(sip_requests,
           [sip_call_to |-> Head(ready).phone_number,
            room_name |-> Head(ready).room_name, ok |-> ok])
    /\ human_in_room' = (human_in_room \/ (ok /\ connected))
    /\ ready' = Tail(ready)
    /\ last' = Step("create_sip_participant", Head(ready), IF ok THEN "none" ELSE "Exception")
    /\ UNCHANGED <<pc, retries, handlers, variant, room_name, connected, human_agent_present,
                   latest_image, chat_context, sleeping, requests, llm_calls, events>>

\* the room disconnects: no event is delivered any more, the tasks stay
RoomDisconnect ==
    /\ connected
    /\ connected' = FALSE
    /\ human_in_room' = FALSE
    /\ last' = Step("disconnected", PyNone, "none")
    /\ UNCHANGED <<pc, retries, handlers, variant, room_name, human_agent_present, latest_image, chat_context,
                   ready, sleeping, requests, sip_requests, llm_calls, events>>

Next ==
    \/ \E msg \in Messages : ChatMessage(msg)
    \/ \E calls \in Turns(variant) : FunctionCallsFinished(calls)
    \/ \E who \in {"human", "other"} : ParticipantDisconnected(who)
    \/ VideoFrame
    \/ RunAnswer
    \/ StartFollowUp
    \/ \E outcome \in Outcomes : \E data \in Bodies : WakeFollowUp(outcome, data)
    \/ \E ok \in BOOLEAN : RunSip(ok)
    \/ RoomDisconnect

Spec == Init /\ [][Next]_vars

----------------------------------------------------------------------------
(* The callable functions on their own: a function is applied to an input  *)
(* of a bounded set, in a session that is otherwise idle.  The step is     *)
(* recorded in last, the request (if any) in requests.                     *)

UpperChar(c) ==
    IF \E i \in 1..26 : LowerCase[i] = c
    THEN UpperCase[CHOOSE i \in 1..26 : LowerCase[i] = c]
    ELSE c

AllUpper(s) == [i \in 1..Len(s) |-> UpperChar(s[i])]
Capitalized(s) == [i \in 1..Len(s) |-> IF i = 1 THEN UpperChar(s[i]) ELSE s[i]]

\* the urgent keywords of the specification
Keywords ==
    { <<"s","e","v","e","r","e"," ","p","a","i","n">>,
      <<"s","w","e","l","l","i","n","g">>,
      <<"b","l","e","e","d","i","n","g">>,
      <<"t","r","a","u","m","a">>,
      <<"k","n","o","c","k","e","d"," ","o","u","t">>,
      <<"b","r","o","k","e","n">> }

\* texts that are close to a keyword and contain none
NearMisses ==
    { <<>>,
      <<"s","w","o","l","l","e","n">>,
      <<"b","l","e","e","d">>,
      <<"b","r","o","k","e">>,
      <<"s","e","v","e","r","e","p","a","i","n">>,
      <<"k","n","o","c","k","e","d"," "," ","o","u","t">>,
      <<"p","a","i","n">> }

SymptomCores ==
    Keywords \cup {AllUpper(k) : k \in Keywords} \cup {Capitalized(k) : k \in Keywords}
    \cup NearMisses

SymptomPrefixes == { <<>>, <<"m","y"," ","t","o","o","t","h"," ","i","s"," ">> }
SymptomSuffixes == { <<>>, <<" ","a","n","d"," ","s","w","o","l","l","e","n">>, <<"!">> }

Symptoms == { p \o c \o x : p \in SymptomPrefixes, c \in SymptomCores, x \in SymptomSuffixes }

InitFunctions ==
    /\ variant \in Dental
    /\ room_name \in Rooms
    /\ pc = "session"
    /\ retries = 0
    /\ handlers = Handlers(variant)
    /\ connected = TRUE
    /\ human_in_room = FALSE
    /\ human_agent_present = FALSE
    /\ latest_image = 0
    /\ chat_context = <<SystemMessage>>
    /\ ready = <<>>
    /\ sleeping = <<>>
    /\ requests = [e \in Endpoints |-> 0]
    /\ sip_requests = <<>>
    /\ llm_calls = 0
    /\ events = 0
    /\ last = Step("entrypoint", PyNone, "none")

\* a function that sends its request a second time
Sent_twice(r, reqs) ==
    IF r.endpoint = NoRequest THEN reqs ELSE [reqs EXCEPT ![r.endpoint] = @ + 2]

\* requests after one function returned r
Sent(r, reqs) ==
    IF r.endpoint = NoRequest THEN reqs ELSE [reqs EXCEPT ![r.endpoint] = @ + 1]

ApplyAssess(symptoms) ==
    /\ LET r == assess_dental_urgency(variant, symptoms)
       IN  /\ last' = Step("assess_dental_urgency",
                           [symptoms |-> symptoms, result |-> r.result], "none")
           /\ requests' = Sent(r, requests)
    /\ UNCHANGED <<pc, retries, handlers, variant, room_name, connected, human_in_room, human_agent_present,
                   latest_image, chat_context, ready, sleeping, sip_requests,
                   llm_calls, events>>

\* one call of any function of the registry, with what its HTTP collaborator
\* answers: the result, the URL requested and the exception that leaves it
Run(v, call) ==
    CASE call.name = "create_contact_in_crm" ->
             create_contact_in_crm(v, call.arguments.email, call.arguments.name,
                                   call.outcome, call.body)
      [] call.name = "update_contact_info" ->
             update_contact_info(v, call.arguments.contact_id,
                                 call.arguments.issue_description, call.outcome)
      [] call.name = "find_appointment_slots" ->
             find_appointment_slots(v, call.arguments.urgency, call.outcome, call.body)
      [] OTHER ->
             [result |-> Execute(v, call).result, endpoint |-> Execute(v, call).endpoint,
              raised |-> "none"]

\* decoded bodies of the contact endpoint
ContactBodies ==
    { [contact |-> [id |-> ContactId]],
      [contact |-> [email |-> EmailValid]],
      [message |-> "created"] }

\* decoded bodies of the slots endpoint, in key order
SlotBodies ==
    { <<>>,
      <<[key |-> "2024-10-17", value |-> [slots |-> <<Slot, Lit("2024-10-17T04:00:00+01:00")>>]]>>,
      <<[key |-> "2024-10-17", value |-> [slots |-> <<Slot>>]],
        [key |-> "traceId", value |-> [str |-> "t1"]]>>,
      <<[key |-> "2024-10-17", value |-> [slots |-> <<>>]]>>,
      <<[key |-> "2024-10-17", value |-> [times |-> <<Slot>>]]>>,
      <<[key |-> "traceId", value |-> [str |-> "t1"]]>> }

Urgencies == {Lit("emergency"), Lit("non_emergency")}

\* the calls the language model may ask for, one at a time
FunctionCalls(v) ==
    { [name |-> c.name, arguments |-> c.arguments, outcome |-> c.outcome, body |-> <<>>] :
         c \in Calls(v) }
    \cup { [name |-> "book_appointment", arguments |-> [email |-> e, name |-> PatientName],
            outcome |-> o, body |-> <<>>] : e \in EmailStrings, o \in Outcomes }
    \cup ( IF v = "multi"
           THEN { [name |-> "create_contact_in_crm",
                   arguments |-> [email |-> EmailValid, name |-> PatientName],
                   outcome |-> "2xx", body |-> b] : b \in ContactBodies }
                \cup { [name |-> "create_contact_in_crm",
                        arguments |-> [email |-> EmailValid, name |-> PatientName],
                        outcome |-> o, body |-> <<>>] : o \in Outcomes \ {"2xx"} }
                \cup { [name |-> "update_contact_info",
                        arguments |-> [contact_id |-> ContactId, issue_description |-> Issue],
                        outcome |-> o, body |-> <<>>] : o \in Outcomes }
                \cup { [name |-> "find_appointment_slots", arguments |-> [urgency |-> u],
                        outcome |-> "2xx", body |-> b] : u \in Urgencies, b \in SlotBodies }
                \cup { [name |-> "find_appointment_slots", arguments |-> [urgency |-> u],
                        outcome |-> o, body |-> <<>>] :
                           u \in Urgencies, o \in Outcomes \ {"2xx"} }
           ELSE {} )

\* a turn of one call: the function runs and function_calls_finished is
\* handled with its CalledFunction (for the functions that can raise, the
\* handlers have no branch)
ApplyCall(call) ==
    /\ connected
    /\ events < MaxTurns
    /\ events' = events + 1
    /\ LET r == Run(variant, call)
           called == <<[name |-> call.name, arguments |-> call.arguments,
                        result |-> r.result]>>
           eff == on_function_calls_finished(variant, called, human_agent_present, room_name)
       IN  /\ requests' = Sent(r, requests)
           /\ ready' = ready \o eff.tasks
           /\ human_agent_present' = eff.hap
           /\ last' = Step("call", [call |-> call, result |-> r.result,
                                    handler_raised |-> eff.raised], r.raised)
    /\ UNCHANGED <<pc, retries, handlers, variant, room_name, connected, human_in_room,
                   latest_image, chat_context, sleeping, sip_requests, llm_calls>>

\* what a participant publishes: for each publication, its track
TrackKinds == {"video", "audio", "none"}
Publishing == UNION { [1..n -> TrackKinds] : n \in 0..MaxPublications }
RemoteParticipants == UNION { [1..n -> Publishing] : n \in 0..MaxParticipants }

\* room.remote_participants with the track publications of each
Room(kinds) ==
    [i \in 1..Len(kinds) |->
        [j \in 1..Len(kinds[i]) |-> [track |-> kinds[i][j], sid |-> <<"TR", i, j>>]]]

\* the entrypoint looks for the video track of the room
ApplyGetVideoTrack(kinds) ==
    /\ LET r == get_video_track(Room(kinds))
       IN  last' = Step("get_video_track",
                        [participants |-> kinds, completes |-> r.completes,
                         track |-> r.track, set_results |-> r.set_results], r.raised)
    /\ UNCHANGED <<pc, retries, handlers, variant, room_name, connected, human_in_room, human_agent_present,
                   latest_image, chat_context, ready, sleeping, requests, sip_requests,
                   llm_calls, events>>

NextFunctions ==
    \E symptoms \in Symptoms : ApplyAssess(symptoms)

SpecFunctions == InitFunctions /\ [][NextFunctions]_vars

\* a session in which the language model asks for one function at a time,
\* with every function of the registry and every answer of its collaborator
NextTurn ==
    \/ \E call \in FunctionCalls(variant) : ApplyCall(call)
    \/ VideoFrame
    \/ RunAnswer
    \/ StartFollowUp
    \/ \E outcome \in Outcomes : \E data \in Bodies : WakeFollowUp(outcome, data)
    \/ \E ok \in BOOLEAN : RunSip(ok)

SpecTurn == InitFunctions /\ [][NextTurn]_vars

\* a session that stays connected, under the scheduling of the event loop:
\* one call per turn and chat messages arrive, a task that is ready is run
\* and a sleep that was started ends
NextLive ==
    \/ NextTurn
    \/ \E msg \in Messages : ChatMessage(msg)

Fairness ==
    /\ WF_vars(RunAnswer)
    /\ WF_vars(StartFollowUp)
    /\ WF_vars(\E outcome \in Outcomes : \E data \in Bodies : WakeFollowUp(outcome, data))
    /\ WF_vars(\E ok \in BOOLEAN : RunSip(ok))

SpecLive == Init /\ [][NextLive]_vars /\ Fairness

\* the discovery of the video track on its own, for every room
NextVideo ==
    \E kinds \in RemoteParticipants : ApplyGetVideoTrack(kinds)

SpecVideo == InitFunctions /\ [][NextVideo]_vars

\* the urgency argument: the two values of its description, and others
WindowUrgencies == Urgencies \cup {Lit("urgent"), <<>>}

\* a turn whose call is find_appointment_slots, at the time now: the query
\* parameters are computed, the request is sent and function_calls_finished
\* is handled
ApplyFindSlots(now, urgency, outcome, slots) ==
    /\ connected
    /\ variant = "multi"
    /\ events < MaxTurns
    /\ events' = events + 1
    /\ LET r == find_appointment_slots(variant, urgency, outcome, slots)
           called == <<[name |-> "find_appointment_slots",
                        arguments |-> [urgency |-> urgency], result |-> r.result]>>
           eff == on_function_calls_finished(variant, called, human_agent_present, room_name)
       IN  /\ requests' = Sent(r, requests)
           /\ ready' = ready \o eff.tasks
           /\ human_agent_present' = eff.hap
           /\ last' = Step("find_appointment_slots",
                           [now |-> now, urgency |-> urgency,
                            params |-> Params(now, urgency), result |-> r.result],
                           r.raised)
    /\ UNCHANGED <<pc, retries, handlers, variant, room_name, connected, human_in_room,
                   latest_image, chat_context, sleeping, sip_requests, llm_calls>>

\* the slot search on its own, at every time and for every urgency
NextWindow ==
    \E now \in 0..MaxNow : \E urgency \in WindowUrgencies :
        \E outcome \in Outcomes : \E slots \in SlotBodies :
            ApplyFindSlots(now, urgency, outcome, slots)

SpecWindow == InitFunctions /\ [][NextWindow]_vars

----------------------------------------------------------------------------
(* The two escalating variants with chat messages of many texts.           *)

\* texts with the help phrase in several spellings, texts close to it, and
\* texts without it
ChatCores ==
    { <<"h","e","l","p"," ","m","e">>,
      <<"H","E","L","P"," ","M","E">>,
      <<"H","e","l","p"," ","M","e">>,
      <<"p","l","e","a","s","e"," ","h","e","l","p"," ","m","e">>,
      <<"h","e","l","p"," "," ","m","e">>,
      <<"h","e","l","p","m","e">>,
      <<"h","e","l","p">>,
      <<"m","e"," ","h","e","l","p">>,
      <<"h","i">>,
      <<>> }

ChatTexts == { c \o x : c \in ChatCores, x \in { <<>>, <<"!">>, <<" ","n","o","w">> } }

InitChat ==
    /\ variant \in Escalating
    /\ room_name \in Rooms
    /\ pc = "session"
    /\ retries = 0
    /\ handlers = Handlers(variant)
    /\ connected = TRUE
    /\ human_in_room = FALSE
    /\ human_agent_present = FALSE
    /\ latest_image = 0
    /\ chat_context = <<SystemMessage>>
    /\ ready = <<>>
    /\ sleeping = <<>>
    /\ requests = [e \in Endpoints |-> 0]
    /\ sip_requests = <<>>
    /\ llm_calls = 0
    /\ events = 0
    /\ last = Step("entrypoint", PyNone, "none")

NextChat ==
    \/ \E call \in FunctionCalls(variant) : ApplyCall(call)
    \/ \E msg \in ChatTexts : ChatMessage(msg)
    \/ RunAnswer
    \/ StartFollowUp
    \/ \E outcome \in Outcomes : \E data \in Bodies : WakeFollowUp(outcome, data)
    \/ \E ok \in BOOLEAN : RunSip(ok)

SpecChat == InitChat /\ [][NextChat]_vars

----------------------------------------------------------------------------
(* The modular entrypoint (main.py): the voice assistant is built from the *)
(* configuration.                                                          *)

OPENAI == <<"o","p","e","n","a","i">>

\* create_openai_tts: the stream adapter over the OpenAI voice
create_openai_tts(config) ==
    [adapter |-> "tts.StreamAdapter", tts |-> "openai.TTS",
     voice |-> config.openai_tts_voice]

\* a selection that ignores the case of the provider
get_tts_engine_ignoring_case(config) ==
    IF Lower(config.tts_provider) = OPENAI
    THEN [result |-> create_openai_tts(config), raised |-> "none"]
    ELSE [result |-> PyNone, raised |-> "ValueError"]

\* get_tts_engine: the engine, or ValueError("Unsupported TTS provider: ...")
get_tts_engine(config) ==
    IF config.tts_provider = OPENAI
    THEN [result |-> create_openai_tts(config), raised |-> "none"]
    ELSE [result |-> PyNone, raised |-> "ValueError"]

\* create_voice_assistant: the exception of get_tts_engine leaves it before
\* VoiceAssistant(...) is built
create_voice_assistant(config, messages) ==
    LET tts_engine == get_tts_engine(config)
    IN  IF tts_engine.raised # "none"
        THEN [result |-> PyNone, raised |-> tts_engine.raised]
        ELSE [result |-> [llm |-> config.gpt_model, tts |-> tts_engine.result,
                          fnc_ctx |-> config.webhook_url, chat_ctx |-> messages],
              raised |-> "none"]

\* values of TTS_PROVIDER, OPENAI_TTS_VOICE and GPT_MODEL
Providers ==
    { OPENAI,
      <<"O","p","e","n","A","I">>,
      <<"O","P","E","N","A","I">>,
      <<"o","p","e","n","a","i"," ">>,
      <<" ","o","p","e","n","a","i">>,
      <<"o","p","e","n"," ","a","i">>,
      <<"o","p","e","n","a","i","_","t","t","s">>,
      <<"o","p","e","n">>,
      <<"e","l","e","v","e","n","l","a","b","s">>,
      <<"a","z","u","r","e">>,
      <<"g","o","o","g","l","e">>,
      <<>> }

Voices == {"alloy", "nova", "echo"}
Models == {"gpt-4o-mini", "gpt-4o", "gpt-4-turbo"}

Configs ==
    { [tts_provider |-> p, openai_tts_voice |-> vo, gpt_model |-> m,
       webhook_url |-> WEBHOOK_URL] : p \in Providers, vo \in Voices, m \in Models }

\* main.py is the modular form of agent.py: the session is connected and the
\* context built when create_voice_assistant is called; no handler yet
InitAssistant ==
    /\ variant = "agent"
    /\ room_name \in Rooms
    /\ pc = "session"
    /\ retries = 0
    /\ handlers = {}
    /\ connected = TRUE
    /\ human_in_room = FALSE
    /\ human_agent_present = FALSE
    /\ latest_image = 0
    /\ chat_context = <<SystemMessage>>
    /\ ready = <<>>
    /\ sleeping = <<>>
    /\ requests = [e \in Endpoints |-> 0]
    /\ sip_requests = <<>>
    /\ llm_calls = 0
    /\ events = 0
    /\ last = Step("entrypoint", PyNone, "none")

ApplyCreateVoiceAssistant(config) ==
    /\ LET r == create_voice_assistant(config, chat_context)
       IN  last' = Step("create_voice_assistant",
                        [config |-> config, assistant |-> r.result], r.raised)
    /\ UNCHANGED <<pc, retries, handlers, variant, room_name, connected, human_in_room,
                   human_agent_present, latest_image, chat_context, ready, sleeping,
                   requests, sip_requests, llm_calls, events>>

NextAssistant ==
    \E config \in Configs : ApplyCreateVoiceAssistant(config)

SpecAssistant == InitAssistant /\ [][NextAssistant]_vars

----------------------------------------------------------------------------
(* The entrypoint of agent.py before the session: it polls the room status *)
(* and joins the room once it is active.                                   *)

max_retries == 12

\* what the status request can produce: an exception, or a response with its
\* status code and its decoded body
Responses ==
    { [raised |-> FALSE, status_code |-> 200, json |-> [num_participants |-> n]] : n \in 0..2 }
    \cup { [raised |-> FALSE, status_code |-> 200, json |-> [name |-> "dental-room"]],
           [raised |-> FALSE, status_code |-> 404, json |-> [error |-> "not found"]],
           [raised |-> TRUE, status_code |-> 0, json |-> [error |-> "none"]] }

\* check_room_status: the room exists and has participants
check_room_status(response) ==
    IF response.raised THEN FALSE
    ELSE IF response.status_code = 200
    THEN Get(response.json, "num_participants", 0) > 0
    ELSE FALSE

\* a loop that polls once more than max_retries
wait_for_room_one_more(n, room_exists) ==
    IF room_exists
    THEN [retries |-> n, returns |-> "True"]
    ELSE [retries |-> n + 1,
          returns |-> IF n + 1 <= max_retries THEN "None" ELSE "False"]

\* one iteration of the loop of wait_for_room, and what the function returns
\* when the iteration ends the loop ("None": it goes on after the sleep)
wait_for_room(n, room_exists) ==
    IF room_exists
    THEN [retries |-> n, returns |-> "True"]
    ELSE [retries |-> n + 1,
          returns |-> IF n + 1 < max_retries THEN "None" ELSE "False"]

InitRoom ==
    /\ variant = "agent"
    /\ room_name \in Rooms
    /\ pc = "wait_for_room"
    /\ retries = 0
    /\ handlers = {}
    /\ connected = FALSE
    /\ human_in_room = FALSE
    /\ human_agent_present = FALSE
    /\ latest_image = 0
    /\ chat_context = <<>>
    /\ ready = <<>>
    /\ sleeping = <<>>
    /\ requests = [e \in Endpoints |-> 0]
    /\ sip_requests = <<>>
    /\ llm_calls = 0
    /\ events = 0
    /\ last = Step("entrypoint", PyNone, "none")

\* one poll of the room: when wait_for_room returns True the entrypoint
\* connects, builds the context and registers its handlers; when it returns
\* False the entrypoint returns
Poll(response) ==
    /\ pc = "wait_for_room"
    /\ LET w == wait_for_room(retries, check_room_status(response))
       IN  /\ retries' = w.retries
           /\ pc' = CASE w.returns = "True" -> "session"
                       [] w.returns = "False" -> "returned"
                       [] OTHER -> "wait_for_room"
           /\ connected' = (w.returns = "True")
           /\ handlers' = IF w.returns = "True" THEN Handlers(variant) ELSE {}
           /\ chat_context' = IF w.returns = "True" THEN <<SystemMessage>> ELSE <<>>
           /\ last' = Step("wait_for_room",
                           [response |-> response, returns |-> w.returns], "none")
    /\ requests' = [requests EXCEPT ![RoomStatusUrl(room_name)] = @ + 1]
    /\ UNCHANGED <<variant, room_name, human_in_room, human_agent_present, latest_image,
                   ready, sleeping, sip_requests, llm_calls, events>>

NextRoom ==
    \/ \E response \in Responses : Poll(response)
    \/ \E msg \in Messages : ChatMessage(msg)
    \/ RunAnswer

\* the sleep between two polls ends
SpecRoom == InitRoom /\ [][NextRoom]_vars /\ WF_vars(\E response \in Responses : Poll(response))

----------------------------------------------------------------------------
(* Vocabulary of the properties.                                           *)

\* the whole of email matches ^[^@]+@[^@]+\.[^@]+$
FullMatch(email) ==
    \E a \in 2..Len(email) : \E d \in (a + 2)..(Len(email) - 1) :
        /\ email[a] = "@"
        /\ email[d] = "."
        /\ \A i \in 1..Len(email) : i # a => email[i] # "@"

\* text contains the help phrase, whatever the case of its letters
HasHelpPhrase(text) ==
    \E i \in 0..(Len(text) - 7) :
        \A j \in 1..7 : LowerChar(text[i + j]) = <<"h","e","l","p"," ","m","e">>[j]

\* text contains an urgent keyword, whatever the case of its letters
MentionsKeyword(text) ==
    \E k \in Keywords : \E i \in 0..(Len(text) - Len(k)) :
        \A j \in 1..Len(k) : LowerChar(text[i + j]) = k[j]

\* the step is the delivery of a chat message
IsChat == last'.ev = "message_received" /\ events' = events + 1

\* the step is a turn: the calls were run and function_calls_finished handled;
\* last'.arg is then the list of the called functions
IsTurn == last'.ev = "function_calls_finished" /\ events' = events + 1

\* the called function is a book_appointment with a valid email
ValidBooking(f) == f.name = "book_appointment" /\ FullMatch(f.arguments.email)

\* the step is the disconnect of the human agent's participant
HumanLeft == human_in_room /\ ~human_in_room' /\ connected'

\* the tasks the step created
NewTasks == SubSeq(ready', Len(ready) + 1, Len(ready'))

\* the follow-ups the step scheduled for a valid email
NewValidFollowUps ==
    Cardinality({i \in 1..Len(NewTasks) :
        NewTasks[i].kind = "follow_up" /\ FullMatch(NewTasks[i].email)})

\* the book_appointment calls of a turn that carry a valid email
ValidBookings(called) ==
    Cardinality({i \in 1..Len(called) : ValidBooking(called[i])})

\* no contact of the decoded body carries the booked tag
NoBookedContact(data) ==
    \/ "contacts" \notin DOMAIN data
    \/ \A i \in 1..Len(data.contacts) :
          \/ "tags" \notin DOMAIN data.contacts[i]
          \/ \A j \in 1..Len(data.contacts[i].tags) :
                data.contacts[i].tags[j] # "livekit_appointment_booked"

OfferToBook ==
    IF variant = "agent"
    THEN Lit("The user has not yet booked an appointment. Please offer him help")
    ELSE Lit("You haven't booked a dental appointment yet. Would you like assistance in scheduling one?")

----------------------------------------------------------------------------
(* Properties.                                                             *)

\* C1: while human_agent_present is true, a step that appends to the
\* conversation context or invokes the model is an _answer of the help-phrase
\* path (a chat message with the help phrase, passed with
\* ai_assistance_required).  The hand-over announcement and the
\* re-engagement prompt are not what the property is about.
C1_OnlyHelpPathSpeaksWhileHumanActive ==
    [][ ( /\ human_agent_present
          /\ (chat_context' # chat_context \/ llm_calls' # llm_calls)
          /\ last'.ev = "_answer"
          /\ last'.arg.text \notin {ReEngagement, HumanIsComing} )
        => ( /\ last'.arg.ai_assistance_required
             /\ HasHelpPhrase(last'.arg.text) ) ]_vars

\* C2: a chat message without the help phrase that arrives while
\* human_agent_present is true is dropped: the step creates no task (nothing
\* is queued), appends nothing to the context and invokes no model.
C2_OrdinaryChatDroppedWhileHumanActive ==
    [][ ( /\ IsChat
          /\ variant \in Escalating
          /\ human_agent_present
          /\ ~HasHelpPhrase(last'.arg) )
        => ( /\ ready' = ready
             /\ sleeping' = sleeping
             /\ chat_context' = chat_context
             /\ llm_calls' = llm_calls
             /\ human_agent_present' ) ]_vars

\* C2 witness: the human agent is active and an ordinary chat message has
\* just been dropped.
C2_Witness ==
    /\ last.ev = "message_received"
    /\ last.arg = MsgPlain
    /\ human_agent_present
    /\ human_in_room
    /\ ready = <<>>
    /\ chat_context = <<SystemMessage>>

\* C3: the disconnect of the human agent while human_agent_present is true
\* makes human_agent_present false.
C3_DisconnectReturnsToAIActive ==
    [][ (HumanLeft /\ human_agent_present) => ~human_agent_present' ]_vars

C5_FailedCallLeavesAIActive ==
    (last.ev = "create_sip_participant" /\ last.raised # "none") => ~human_agent_present

\* C6: a turn whose first called function is assess_dental_urgency with the
\* escalation sentinel as result sets human_agent_present and creates exactly
\* one create_sip_participant task, for the configured phone number and the
\* session's room; and a create_sip_participant task sends exactly one request,
\* to that number and room.
C6_EscalationPlacesOneCall ==
    [][ /\ ( ( /\ IsTurn
               /\ Len(last'.arg) > 0
               /\ last'.arg[1].name = "assess_dental_urgency"
               /\ last'.arg[1].result = Lit("call_human_agent") )
             => ( /\ human_agent_present'
                  /\ NewTasks = <<[kind |-> "sip", phone_number |-> HUMAN_AGENT_PHONE,
                                   room_name |-> room_name]>> ) )
        /\ ( last'.ev = "create_sip_participant"
             => ( /\ Len(sip_requests') = Len(sip_requests) + 1
                  /\ sip_requests'[Len(sip_requests')].sip_call_to = HUMAN_AGENT_PHONE
                  /\ sip_requests'[Len(sip_requests')].room_name = room_name ) ) ]_vars

\* C6 witness: the session was AI_ACTIVE, one assess_dental_urgency turn
\* escalated, and the one call request has been sent.
C6_Witness ==
    /\ variant = "helpdesk"
    /\ events = 1
    /\ last.ev = "create_sip_participant"
    /\ human_agent_present
    /\ Len(sip_requests) = 1
    /\ sip_requests[1].sip_call_to = HUMAN_AGENT_PHONE
    /\ sip_requests[1].room_name = room_name

\* C7 as stated: in every turn, each book_appointment call with a valid email
\* issues one POST to the webhook and schedules one follow-up.
C7_OnePostOneFollowUpPerCall ==
    [][ IsTurn
        => ( /\ requests'[WEBHOOK_URL] = requests[WEBHOOK_URL] + ValidBookings(last'.arg)
             /\ NewValidFollowUps = ValidBookings(last'.arg) ) ]_vars

\* C7 amended: in every turn, each book_appointment call with a valid email
\* issues one POST to the webhook, whatever its outcome; one follow-up, for
\* that email, is scheduled when the call is the first of the turn, and a later
\* call of the turn schedules none.
C7_OnePostAndFollowUpForFirstCall ==
    [][ IsTurn
        => ( /\ requests'[WEBHOOK_URL] = requests[WEBHOOK_URL] + ValidBookings(last'.arg)
             /\ IF Len(last'.arg) > 0 /\ ValidBooking(last'.arg[1])
                THEN NewTasks = <<[kind |-> "follow_up",
                                   email |-> last'.arg[1].arguments.email]>>
                ELSE NewValidFollowUps = 0 ) ]_vars

\* C7 witness: a turn whose first call was book_appointment with a valid email
\* and a failed POST has scheduled the follow-up.
C7_Witness ==
    /\ last.ev = "function_calls_finished"
    /\ Len(last.arg) = 1
    /\ ValidBooking(last.arg[1])
    /\ last.arg[1].result = Lit("There was an error booking your dental appointment. Please try again later.")
    /\ requests[WEBHOOK_URL] = 1
    /\ ready = <<[kind |-> "follow_up", email |-> last.arg[1].arguments.email]>>

\* C8: a book_appointment call with an invalid email causes no network call:
\* a turn issues POSTs for its valid emails only, and no CRM lookup is made
\* for an invalid email.
C8_InvalidEmailNoNetworkCall ==
    [][ /\ IsTurn
           => requests'[WEBHOOK_URL] = requests[WEBHOOK_URL] + ValidBookings(last'.arg)
        /\ \A e \in Emails :
              requests'[LookupUrl(e)] > requests[LookupUrl(e)] => FullMatch(e) ]_vars

\* C9 as stated: in every variant assess_dental_urgency returns the escalation
\* sentinel when the symptoms contain an urgent keyword in any case, the
\* reassurance text otherwise, and sends no request.
C9_SentinelOnKeyword ==
    last.ev = "assess_dental_urgency"
    => ( /\ last.arg.result =
               IF MentionsKeyword(last.arg.symptoms)
               THEN Lit("call_human_agent")
               ELSE Lit("Your dental issue doesn't appear to be immediately urgent, but it's still important to schedule an appointment soon for a proper evaluation.")
         /\ \A e \in Endpoints : requests[e] = 0 )

\* C9 amended: assess_dental_urgency returns its variant's urgent result when
\* the symptoms contain an urgent keyword in any case (the escalation sentinel
\* in AIAssistedCustomerHelpDesk.py, an urgent-attention text in the
\* multi-function and Knolabs variants), the reassurance text otherwise, and
\* sends no request.
C9_UrgentResultOnKeyword ==
    last.ev = "assess_dental_urgency"
    => ( /\ last.arg.result =
               IF MentionsKeyword(last.arg.symptoms)
               THEN ( CASE variant = "helpdesk" -> Lit("call_human_agent")
                        [] variant = "multi" -> Lit("The issue needs urgent attention !!")
                        [] variant = "knolabs" -> Lit("Based on your description, this seems to be an urgent dental issue. I recommend seeking immediate dental care.") )
               ELSE Lit("Your dental issue doesn't appear to be immediately urgent, but it's still important to schedule an appointment soon for a proper evaluation.")
         /\ \A e \in Endpoints : requests[e] = 0 )

\* C9 witness: "my tooth is BLEEDING and swollen" got the sentinel.
C9_Witness ==
    /\ variant = "helpdesk"
    /\ last.ev = "assess_dental_urgency"
    /\ last.arg.symptoms =
          <<"m","y"," ","t","o","o","t","h"," ","i","s"," ",
            "B","L","E","E","D","I","N","G",
            " ","a","n","d"," ","s","w","o","l","l","e","n">>
    /\ last.arg.result = Lit("call_human_agent")

\* C10: a status lookup whose response carries no contact with the booked tag
\* returns the offer-to-book message, however many lookups went before, and
\* the lookup changes neither human_agent_present, nor the conversation
\* context, nor the other pending follow-ups.
C10_LookupIdempotent ==
    [][ \A outcome \in Outcomes : \A data \in Bodies :
          (last'.ev = "check_appointment_status" /\ WakeFollowUp(outcome, data))
          => ( /\ (outcome = "2xx" /\ NoBookedContact(data)) => last'.arg.result = OfferToBook
               /\ human_agent_present' = human_agent_present
               /\ chat_context' = chat_context
               /\ llm_calls' = llm_calls
               /\ sleeping' = Tail(sleeping)
               /\ \A i \in 1..Len(ready) : ready'[i] = ready[i] ) ]_vars

\* C10 witness: the second lookup for the same email has just returned the
\* offer-to-book message, as the first did.
C10_Witness ==
    /\ last.ev = "check_appointment_status"
    /\ requests[LookupUrl(last.arg.email)] = 2
    /\ last.arg.result = OfferToBook
    /\ Len(ready) = 2
    /\ \A i \in 1..2 : ready[i].kind = "answer" /\ ready[i].text = OfferToBook

\* the step is a turn of one call; last'.arg is then the call, with what the
\* HTTP collaborator answered, and its result
IsCall == last'.ev = "call" /\ events' = events + 1

\* the create_sip_participant tasks among the tasks the step created
NewSipTasks == SelectSeq(NewTasks, LAMBDA t : t.kind = "sip")

\* C11: find_appointment_slots called with urgency "emergency", answered 2xx
\* with an empty set of slots, returns "No Slot Found"; the turn sends no
\* request to the booking endpoint or the webhook, creates no task (no outbound
\* call, no announcement) and leaves human_agent_present as it was.
C11_NoSlotNoBookingNoEscalation ==
    [][ ( /\ IsCall
          /\ last'.arg.call.name = "find_appointment_slots"
          /\ last'.arg.call.arguments.urgency = Lit("emergency")
          /\ last'.arg.call.outcome = "2xx"
          /\ last'.arg.call.body = <<>> )
        => ( /\ last'.arg.result = Lit("No Slot Found")
             /\ last'.raised = "none"
             /\ requests'[BOOK_APPOINTMENT_ENDPOINT] = requests[BOOK_APPOINTMENT_ENDPOINT]
             /\ requests'[WEBHOOK_URL] = requests[WEBHOOK_URL]
             /\ requests'[APPOINTMENT_SLOTS_ENDPOINT] = requests[APPOINTMENT_SLOTS_ENDPOINT] + 1
             /\ ready' = ready
             /\ sip_requests' = sip_requests
             /\ human_agent_present' = human_agent_present ) ]_vars

\* C11 witness: the emergency search that found an empty calendar has
\* returned "No Slot Found" in a session that is still AI_ACTIVE.
C11_Witness ==
    /\ last.ev = "call"
    /\ last.arg.call.name = "find_appointment_slots"
    /\ last.arg.call.arguments.urgency = Lit("emergency")
    /\ last.arg.call.outcome = "2xx"
    /\ last.arg.call.body = <<>>
    /\ last.arg.result = Lit("No Slot Found")
    /\ requests[APPOINTMENT_SLOTS_ENDPOINT] = 1
    /\ requests[BOOK_APPOINTMENT_ENDPOINT] = 0
    /\ ready = <<>>
    /\ ~human_agent_present

\* C12: every call of a function that returns text (all but the image
\* function), whatever its HTTP collaborator answered, ends without an
\* exception and with a text as result.
C12_EveryCallResolvesToText ==
    (last.ev = "call" /\ last.arg.call.name \notin {"analyze_dental_image", "provideImage"})
    => ( /\ last.raised = "none"
         /\ last.arg.result # Lit("<None>") )

\* C13: the first message of the conversation context is the system message
\* in every state, and every step leaves the context as it was or appends to
\* it: the messages it held stay, in their places and unchanged.
C13_SystemFirstAppendOnly ==
    [][ /\ chat_context[1].role = "system"
        /\ chat_context'[1] = [role |-> "system", content |-> Lit("persona")]
        /\ Len(chat_context') \in {Len(chat_context), Len(chat_context) + 1}
        /\ \A i \in 1..Len(chat_context) : chat_context'[i] = chat_context[i] ]_vars

\* C13 witness: two messages were appended after the system message.
C13_Witness ==
    /\ Len(chat_context) = 3
    /\ chat_context[1].role = "system"
    /\ chat_context[2].role = "user"
    /\ chat_context[3].role = "user"
    /\ llm_calls = 2

\* C14: a follow-up whose delay ends when the room has disconnected sends no
\* request, creates no task, appends nothing to the context and invokes no
\* model.
C14_FollowUpAfterDisconnectNoOp ==
    [][ (last'.ev = "check_appointment_status" /\ ~connected)
        => ( /\ requests' = requests
             /\ ready' = ready
             /\ chat_context' = chat_context
             /\ llm_calls' = llm_calls ) ]_vars

\* the number of the tasks of the kind among the tasks the step created
NewOfKind(kind) == Cardinality({i \in 1..Len(NewTasks) : NewTasks[i].kind = kind})

\* C15: a turn with an empty list of called functions changes nothing; in a
\* turn with several called functions every task created is the one the first
\* element asks for (a follow-up for its email, an outbound call for its
\* sentinel, a submission of its result or of its user_msg), at most one of
\* each kind, human_agent_present changes on the first element's sentinel
\* only, and the handler itself touches neither the context nor the model.
C15_OnlyFirstCallDispatched ==
    [][ IsTurn
        => IF Len(last'.arg) = 0
           THEN /\ ready' = ready
                /\ sleeping' = sleeping
                /\ requests' = requests
                /\ sip_requests' = sip_requests
                /\ human_agent_present' = human_agent_present
                /\ chat_context' = chat_context
                /\ llm_calls' = llm_calls
           ELSE /\ human_agent_present' # human_agent_present
                      => last'.arg[1].result = Lit("call_human_agent")
                /\ NewOfKind("follow_up") <= 1
                /\ NewOfKind("sip") <= 1
                /\ NewOfKind("answer") <= 1
                /\ \A i \in 1..Len(NewTasks) :
                      CASE NewTasks[i].kind = "follow_up" ->
                               /\ last'.arg[1].name = "book_appointment"
                               /\ NewTasks[i].email = last'.arg[1].arguments.email
                        [] NewTasks[i].kind = "sip" ->
                               last'.arg[1].result = Lit("call_human_agent")
                        [] OTHER ->
                               \/ /\ last'.arg[1].result = Lit("call_human_agent")
                                  /\ NewTasks[i].text = HumanIsComing
                               \/ /\ last'.arg[1].name = "assess_dental_urgency"
                                  /\ NewTasks[i].text = last'.arg[1].result
                               \/ /\ last'.arg[1].name = "book_emergency_appointment"
                                  /\ NewTasks[i].text = last'.arg[1].result
                               \/ /\ last'.arg[1].name = "analyze_dental_image"
                                  /\ NewTasks[i].text = last'.arg[1].arguments.user_msg
                /\ sleeping' = sleeping
                /\ sip_requests' = sip_requests
                /\ chat_context' = chat_context
                /\ llm_calls' = llm_calls ]_vars

\* C15 witness: a turn of two calls, the image function first and a valid
\* booking second, created the resubmission of the first and nothing for the
\* second, whose POST was sent.
C15_Witness ==
    /\ last.ev = "function_calls_finished"
    /\ Len(last.arg) = 2
    /\ last.arg[1].name = "analyze_dental_image"
    /\ ValidBooking(last.arg[2])
    /\ requests[WEBHOOK_URL] = 1
    /\ Len(ready) = 1
    /\ ready[1].kind = "answer"
    /\ ready[1].text = last.arg[1].arguments.user_msg

\* C16: a chat message with the help phrase that arrives while
\* human_agent_present is true creates exactly one _answer task, for that
\* message, and leaves the flag true; and that _answer appends the message to
\* the context and invokes the model once, the flag staying as it is.
C16_HelpPhraseAnsweredOnce ==
    [][ /\ ( ( /\ IsChat
               /\ variant \in Escalating
               /\ human_agent_present
               /\ HasHelpPhrase(last'.arg) )
             => ( /\ Len(NewTasks) = 1
                  /\ NewTasks[1].kind = "answer"
                  /\ NewTasks[1].text = last'.arg
                  /\ NewTasks[1].ai_assistance_required
                  /\ human_agent_present' ) )
        /\ ( ( /\ last'.ev = "_answer"
               /\ Len(ready') < Len(ready)
               /\ Head(ready).ai_assistance_required
               /\ HasHelpPhrase(Head(ready).text) )
             => ( /\ chat_context' = Append(chat_context,
                          [role |-> "user", content |-> <<Head(ready).text>>])
                  /\ llm_calls' = llm_calls + 1
                  /\ human_agent_present' = human_agent_present ) ) ]_vars

\* C16 witness: after an escalation, "Help me" was received and answered:
\* it is the one message added to the context, the model was invoked once and
\* the flag is still true.
C16_Witness ==
    /\ human_agent_present
    /\ last.ev = "_answer"
    /\ last.arg.text = MsgHelp
    /\ chat_context = <<SystemMessage, [role |-> "user", content |-> <<MsgHelp>>]>>
    /\ llm_calls = 1

\* C17: in the multi-function variant a turn whose call is
\* book_emergency_appointment sends one request to the booking endpoint; when
\* the request succeeds the result is the escalation sentinel,
\* human_agent_present becomes true and one create_sip_participant task for
\* the configured number and the room is created (the slot is not looked at);
\* when it fails the result is the error text, no such task is created and
\* human_agent_present keeps its value.  A create_sip_participant task sends
\* one request.
C17_EmergencyBookingEscalatesIffSuccess ==
    [][ /\ ( ( /\ IsCall
               /\ variant = "multi"
               /\ last'.arg.call.name = "book_emergency_appointment" )
             => ( /\ requests'[BOOK_APPOINTMENT_ENDPOINT] =
                        requests[BOOK_APPOINTMENT_ENDPOINT] + 1
                  /\ IF last'.arg.call.outcome = "2xx"
                     THEN /\ last'.arg.result = Lit("call_human_agent")
                          /\ human_agent_present'
                          /\ NewSipTasks = <<[kind |-> "sip",
                                              phone_number |-> HUMAN_AGENT_PHONE,
                                              room_name |-> room_name]>>
                     ELSE /\ last'.arg.result = Lit("There was an error booking your emergency appointment. Please try again later.")
                          /\ NewSipTasks = <<>>
                          /\ human_agent_present' = human_agent_present ) )
        /\ ( last'.ev = "create_sip_participant"
             => Len(sip_requests') = Len(sip_requests) + 1 ) ]_vars

\* C17 witness: the emergency booking succeeded, the session is HUMAN_ACTIVE
\* and the outbound call request has been sent.
C17_Witness ==
    /\ variant = "multi"
    /\ requests[BOOK_APPOINTMENT_ENDPOINT] = 1
    /\ human_agent_present
    /\ last.ev = "create_sip_participant"
    /\ Len(sip_requests) = 1
    /\ sip_requests[1].sip_call_to = HUMAN_AGENT_PHONE

\* C18: a turn whose first called function is analyze_dental_image creates
\* exactly one task, the _answer of its user_msg with use_image; that _answer
\* appends user_msg together with the frame the cache holds when it runs, or
\* user_msg alone when the cache is empty, and invokes the model once; and
\* after a frame was received the cache holds that frame.
C18_ImageResubmittedWithLatestFrame ==
    [][ /\ ( ( /\ IsTurn
               /\ variant \in Dental
               /\ Len(last'.arg) > 0
               /\ last'.arg[1].name = "analyze_dental_image" )
             => ( /\ Len(NewTasks) = 1
                  /\ NewTasks[1].kind = "answer"
                  /\ NewTasks[1].text = last'.arg[1].arguments.user_msg
                  /\ NewTasks[1].use_image ) )
        /\ ( ( /\ last'.ev = "_answer"
               /\ Len(ready') < Len(ready)
               /\ Head(ready).use_image )
             => ( /\ chat_context' = Append(chat_context,
                          [role |-> "user",
                           content |-> IF latest_image = 0
                                       THEN <<Head(ready).text>>
                                       ELSE <<Head(ready).text, [image |-> latest_image]>>])
                  /\ llm_calls' = llm_calls + 1 ) )
        /\ ( last'.ev = "frame" => latest_image' = last'.arg ) ]_vars

\* C18 witness: the message was resubmitted with the second frame of the
\* stream, the first being gone.
C18_Witness ==
    /\ last.ev = "_answer"
    /\ last.arg.use_image
    /\ latest_image = 2
    /\ chat_context = <<SystemMessage,
                         [role |-> "user", content |-> <<ShowTeeth, [image |-> 2]>>]>>
    /\ llm_calls = 1

\* the room holds a video track
HasVideo(kinds) ==
    \E i \in 1..Len(kinds) : \E j \in 1..Len(kinds[i]) : kinds[i][j] = "video"

\* C19: in a room that holds a video track, whatever the number of the
\* participants that publish one, get_video_track completes without an
\* exception and with one track, the first discovered.
C19_OneTrackSelected ==
    (last.ev = "get_video_track" /\ HasVideo(last.arg.participants))
    => ( /\ last.raised = "none"
         /\ last.arg.completes
         /\ last.arg.set_results = 1
         /\ \E i \in 1..Len(last.arg.participants) :
               \E j \in 1..Len(last.arg.participants[i]) :
                  /\ last.arg.participants[i][j] = "video"
                  /\ last.arg.track = <<"TR", i, j>>
                  /\ \A k \in 1..(i - 1) : \A l \in 1..Len(last.arg.participants[k]) :
                        last.arg.participants[k][l] # "video"
                  /\ \A l \in 1..(j - 1) : last.arg.participants[i][l] # "video" )

\* C20: when the entrypoint has set the session up, human_agent_present is
\* false, no frame is cached, no task or follow-up is pending, and the
\* conversation context is the system message alone.
C20_SessionStartsWithDefaults ==
    last.ev = "entrypoint"
    => ( /\ ~human_agent_present
         /\ latest_image = 0
         /\ ready = <<>>
         /\ sleeping = <<>>
         /\ llm_calls = 0
         /\ Len(chat_context) = 1
         /\ chat_context[1].role = "system" )

\* C20 witness: a session that has just started, before any event.
C20_Witness ==
    /\ last.ev = "entrypoint"
    /\ events = 0
    /\ connected
    /\ sip_requests = <<>>

----------------------------------------------------------------------------
\* C21: book_appointment accepts an email exactly when the whole string
\* matches ^[^@]+@[^@]+\.[^@]+$ ; for every other string, including one whose
\* prefix matches and that holds a further "@", it returns the correction
\* message and sends no request.
C21_AcceptsExactlyAnchoredPattern ==
    [][ (IsCall /\ last'.arg.call.name = "book_appointment") =>
          LET email == last'.arg.call.arguments.email
          IN  IF FullMatch(email)
              THEN last'.arg.result # EmailIncorrect
              ELSE last'.arg.result = EmailIncorrect /\ requests' = requests ]_vars

\* C22: a participant_disconnected event that arrives while
\* human_agent_present is false (no human was called, or a participant other
\* than the human agent leaves) creates no task (no re-engagement prompt is
\* queued), appends nothing to the context and invokes no model.
C22_DisconnectInAIActiveIsSilent ==
    [][ (last'.ev = "participant_disconnected" /\ ~human_agent_present)
        => ( /\ ready' = ready
             /\ chat_context' = chat_context
             /\ llm_calls' = llm_calls ) ]_vars

\* C23: _answer decides on the value human_agent_present has when it runs: the
\* _answer of an ordinary chat message (no help phrase, created without the
\* assistance flag) that runs while human_agent_present is true appends
\* nothing to the context and invokes no model, even though the flag was
\* false when the message was received.
C23_AnswerReadsFlagWhenItRuns ==
    [][ ( /\ last'.ev = "_answer"
          /\ variant \in Escalating
          /\ human_agent_present
          /\ last'.arg.text \in Messages
          /\ ~HasHelpPhrase(last'.arg.text)
          /\ ~last'.arg.ai_assistance_required )
        => ( /\ chat_context' = chat_context
             /\ llm_calls' = llm_calls ) ]_vars

\* C24: when no remote participant publishes a video track at the time of the
\* scan, get_video_track completes without an exception (the missing track is
\* information, not an error and not an endless wait).
C24_NoTrackCompletes ==
    (last.ev = "get_video_track" /\ ~HasVideo(last.arg.participants))
        => (last.arg.completes /\ last.raised = "none")

\* the status texts of the variants
StatusTexts ==
    UNION { {StatusBooked(v), StatusNotBooked(v), StatusError(v)} : v \in Variants }

\* a follow-up for email is scheduled: its task is ready to start
Scheduled(email) ==
    \E i \in 1..Len(ready) : ready[i] = FollowUpTask(email)

\* C25: in a session that stays connected every scheduled follow-up fires.
\* Its task starts the sleep for its email and sends nothing; the end of the
\* sleep sends exactly one lookup, for that email, and creates exactly one
\* _answer task with the status text, whatever the flag and whatever was
\* handled in the meantime; that _answer appends the status text once and
\* invokes the model once.  A scheduled follow-up is eventually followed by
\* its lookup, and a lookup by the _answer of its status text.
C25_FollowUpAlwaysFires ==
    /\ [][ /\ (last'.ev = "follow_up_appointment"
                => ( /\ sleeping' = Append(sleeping, Head(ready).email)
                     /\ ready' = Tail(ready)
                     /\ requests' = requests ))
           /\ (last'.ev = "check_appointment_status"
                => ( /\ last'.arg.email = Head(sleeping)
                     /\ sleeping' = Tail(sleeping)
                     /\ requests' =
                          [requests EXCEPT ![LookupUrl(Head(sleeping))] = @ + 1]
                     /\ last'.arg.result \in StatusTexts
                     /\ ready' = Append(ready,
                                   AnswerTask(last'.arg.result, FALSE, FALSE, FALSE)) ))
           /\ ((last'.ev = "_answer" /\ last'.arg.text \in StatusTexts)
                => ( /\ chat_context' =
                          Append(chat_context,
                                 [role |-> "user",
                                  content |-> IF variant = "agent"
                                              THEN last'.arg.text
                                              ELSE <<last'.arg.text>>])
                     /\ llm_calls' = llm_calls + 1 )) ]_vars
    /\ \A email \in EmailStrings :
          Scheduled(email)
             ~> (last.ev = "check_appointment_status" /\ last.arg.email = email)
    /\ \A status \in StatusTexts :
          (last.ev = "check_appointment_status" /\ last.arg.result = status)
             ~> (last.ev = "_answer" /\ last.arg.text = status)

\* C25 witness: a booking was requested, a chat message was handled while the
\* follow-up slept, and the follow-up then fired: one lookup was sent and the
\* status text is in the context after the message.
C25_Witness ==
    /\ connected
    /\ last.ev = "_answer"
    /\ last.arg.text = StatusBooked(variant)
    /\ requests[LookupUrl(EmailValid)] = 1
    /\ Len(chat_context) = 3
    /\ chat_context[2].content = <<MsgPlain>>
    /\ chat_context[3].content = <<StatusBooked(variant)>>
    /\ ready = <<>> /\ sleeping = <<>>

\* the endpoints whose request count the step changed
Changed == {e \in Endpoints : requests'[e] # requests[e]}

RECURSIVE Total(_, _)
\* the number of requests sent to the endpoints of S
Total(reqs, S) ==
    IF S = {} THEN 0
    ELSE LET e == CHOOSE x \in S : TRUE IN reqs[e] + Total(reqs, S \ {e})

\* the endpoints the callable functions send to
FunctionEndpoints == Endpoints \ {LookupUrl(e) : e \in EmailStrings}

\* C26: a function invocation sends at most one HTTP request, also when the
\* answer is a non-2xx response or a network exception (no second attempt);
\* a follow-up lookup sends exactly one; no other step sends any.  So the
\* requests of the functions never exceed the invocations.
C26_AtMostOneRequestPerInvocation ==
    /\ [][ /\ \A e \in Changed : requests'[e] = requests[e] + 1
           /\ Cardinality(Changed) <= 1
           /\ (last'.ev = "check_appointment_status" => Cardinality(Changed) = 1)
           /\ (last'.ev \notin {"call", "check_appointment_status"} => Changed = {}) ]_vars
    /\ [](Total(requests, FunctionEndpoints) <= events)

\* C26 witness: an emergency booking whose request raised was invoked once:
\* one request was sent, and none after it.
C26_Witness ==
    /\ last.ev = "call"
    /\ last.arg.call.name = "book_emergency_appointment"
    /\ last.arg.call.outcome = "exception"
    /\ last.arg.result = EmergencyBookingError
    /\ requests[BOOK_APPOINTMENT_ENDPOINT] = 1
    /\ Total(requests, Endpoints) = 1
    /\ events = 1

\* the booked message and the generic error message of the status lookup
BookedMessage ==
    IF variant = "agent"
    THEN Lit("The user has successfully booked the appointment.")
    ELSE Lit("You have successfully booked a dental appointment.")

LookupError ==
    IF variant = "agent"
    THEN Lit("Error checking the appointment status.")
    ELSE Lit("Error checking the dental appointment status.")

\* C27: check_appointment_status returns the booked message if and only if the
\* request succeeded and at least one returned contact has the tag
\* livekit_appointment_booked in its tag list (a contact without tags and a
\* response without contacts count as not booked); it returns the
\* offer-to-book message when the request succeeded and no contact has the
\* tag, and the generic error message on a non-2xx response or an exception.
C27_BookedIffSomeContactTagged ==
    [][ \A outcome \in Outcomes : \A data \in Bodies :
          (last'.ev = "check_appointment_status" /\ WakeFollowUp(outcome, data))
          => ( /\ (last'.arg.result = BookedMessage)
                     <=> (outcome = "2xx" /\ ~NoBookedContact(data))
               /\ (outcome = "2xx" /\ NoBookedContact(data))
                     => last'.arg.result = OfferToBook
               /\ (outcome # "2xx") => last'.arg.result = LookupError ) ]_vars

\* C27 witness: a lookup has just returned the booked message, the request
\* having been sent once for the email of the booking.
C27_Witness ==
    /\ last.ev = "check_appointment_status"
    /\ last.arg.email = EmailValid
    /\ last.arg.result = BookedMessage
    /\ requests[LookupUrl(EmailValid)] = 1
    /\ Len(ready) = 1 /\ ready[1].text = BookedMessage

\* milliseconds of a number of hours
Millis(hours) == hours * 3600000

\* C28: find_appointment_slots asks for the window [now, now + 24 h] when the
\* urgency is "emergency" and [now + 3 days, now + 10 days] for any other
\* urgency; in both cases startDate is not after endDate, and the window of an
\* emergency starts no later than the other window computed at the same time.
C28_QueryWindow ==
    (last.ev = "find_appointment_slots") =>
        LET p == last.arg.params
            now == Millis(last.arg.now)
        IN  /\ (last.arg.urgency = Lit("emergency"))
                 => ( /\ p.startDate = now
                      /\ p.endDate = now + Millis(24)
                      /\ p.startDate <= now + Millis(72) )
            /\ (last.arg.urgency # Lit("emergency"))
                 => ( /\ p.startDate = now + Millis(72)
                      /\ p.endDate = now + Millis(240) )
            /\ p.startDate <= p.endDate

\* C28 witness: an emergency search five hours after the epoch has just asked
\* for the 24 hours that follow.
C28_Witness ==
    /\ last.ev = "find_appointment_slots"
    /\ last.arg.now = 5
    /\ last.arg.urgency = Lit("emergency")
    /\ last.arg.params = [startDate |-> 18000000, endDate |-> 104400000]
    /\ requests[APPOINTMENT_SLOTS_ENDPOINT] = 1

\* C29: find_appointment_slots has three outcomes.  A response that is not
\* empty yields "The first available slot is " and the first slot of its first
\* date; an empty response yields "No Slot Found"; a failed request (non-2xx
\* or exception) yields no result.  No exception leaves the function, and the
\* handler of the turn makes neither a slot nor "no slot" of a missing result:
\* it creates no task and leaves the flag.
C29_ThreeOutcomesOfSlotSearch ==
    (last.ev = "call" /\ last.arg.call.name = "find_appointment_slots") =>
        LET call == last.arg.call
        IN  /\ last.raised = "none"
            /\ (call.outcome # "2xx") =>
                   ( /\ last.arg.result = PyNone
                     /\ ready = <<>>
                     /\ ~human_agent_present )
            /\ (call.outcome = "2xx" /\ call.body = <<>>) =>
                   last.arg.result = Lit("No Slot Found")
            /\ (call.outcome = "2xx" /\ call.body # <<>>) =>
                   /\ Len(last.arg.result) = 2
                   /\ last.arg.result[1] = "The first available slot is "

\* the texts of the user messages of a context, in their order
Texts(messages) ==
    [i \in 1..(Len(messages) - 1) |->
        IF variant = "agent" THEN messages[i + 1].content ELSE messages[i + 1].content[1]]

\* the texts of the _answer tasks that wait, in the order they will run
Queued(tasks) ==
    LET answers == SelectSeq(tasks, LAMBDA t : t.kind = "answer")
    IN  [i \in 1..Len(answers) |-> answers[i].text]

\* s is the beginning of t
IsPrefix(s, t) == Len(s) <= Len(t) /\ \A i \in 1..Len(s) : t[i] = s[i]

C31_AssessResultFedBack ==
    [][ ( /\ IsCall
          /\ last'.arg.call.name = "assess_dental_urgency"
          /\ last'.arg.result # Lit("call_human_agent") )
        => ( /\ last'.arg.handler_raised = "none"
             /\ Len(NewTasks) = 1
             /\ NewTasks[1].kind = "answer"
             /\ NewTasks[1].text = last'.arg.result ) ]_vars

\* the status request found the room, with at least one participant
Active(response) ==
    /\ ~response.raised
    /\ response.status_code = 200
    /\ "num_participants" \in DOMAIN response.json
    /\ response.json.num_participants > 0

\* the number of status requests sent for the room
StatusRequests == requests[RoomStatusUrl(room_name)]

\* C32: wait_for_room terminates.  A poll that finds the room active makes it
\* return true, and the entrypoint connects; any other poll (exception,
\* non-200, no participant) counts as unsuccessful, and the twelfth of them
\* makes it return false.  Each poll sends one status request.  When it has
\* returned false the session is not connected, no handler is registered, the
\* context was never built and no model call was made; and it always returns.
C32_WaitForRoomTerminates ==
    /\ [][ (last'.ev = "wait_for_room" /\ pc = "wait_for_room") =>
             /\ StatusRequests' = StatusRequests + 1
             /\ IF Active(last'.arg.response)
                THEN /\ last'.arg.returns = "True"
                     /\ retries' = retries
                     /\ pc' = "session" /\ connected'
                ELSE /\ retries' = retries + 1
                     /\ ~connected'
                     /\ (last'.arg.returns = "False") <=> (retries' = 12)
                     /\ (last'.arg.returns = "False") <=> (pc' = "returned")
                     /\ (last'.arg.returns # "False") => (pc' = "wait_for_room") ]_vars
    /\ [](pc = "wait_for_room" => (retries < 12 /\ StatusRequests = retries /\ ~connected))
    /\ [](pc = "session" => (StatusRequests = retries + 1 /\ StatusRequests <= 12))
    /\ [](pc = "returned" =>
            ( /\ retries = 12
              /\ StatusRequests = 12
              /\ ~connected
              /\ handlers = {}
              /\ chat_context = <<>>
              /\ ready = <<>>
              /\ llm_calls = 0 ))
    /\ <>(pc # "wait_for_room")

\* C32 witness: the twelfth unsuccessful poll, a non-200 answer, has just made
\* wait_for_room return false; the entrypoint returned without a session.
C32_Witness ==
    /\ pc = "returned"
    /\ last.ev = "wait_for_room"
    /\ last.arg.returns = "False"
    /\ last.arg.response.status_code = 404
    /\ retries = 12
    /\ StatusRequests = 12
    /\ ~connected /\ handlers = {} /\ llm_calls = 0

\* the message reaches the model: it is not empty, and the flag is false or
\* the message holds the help phrase
Reaches(msg, hap) == msg # <<>> /\ (~hap \/ HasHelpPhrase(msg))

\* C33: the single-escalation and the multi-function variant decide alike
\* whether a chat message reaches the model.  For every text and every value
\* of human_agent_present the two on_message_received handlers create the same
\* tasks: one _answer task when the message is not empty and the flag is false
\* or the message holds the help phrase, none otherwise; and the _answer of a
\* chat message is silent in neither variant: it appends the message and
\* invokes the model once.
C33_VariantsDecideAlike ==
    [][ /\ IsChat =>
             /\ NewTasks = on_message_received("helpdesk", last'.arg, human_agent_present)
             /\ NewTasks = on_message_received("multi", last'.arg, human_agent_present)
             /\ Len(NewTasks) = (IF Reaches(last'.arg, human_agent_present) THEN 1 ELSE 0)
        /\ (last'.ev = "_answer" /\ last'.arg.text \in ChatTexts) =>
             /\ ~Silent("helpdesk", last'.arg)
             /\ ~Silent("multi", last'.arg)
             /\ Len(chat_context') = Len(chat_context) + 1
             /\ chat_context'[Len(chat_context')].content = <<last'.arg.text>>
             /\ llm_calls' = llm_calls + 1 ]_vars

\* C33 witness: in the multi-function variant, with the human agent called,
\* "HELP ME now" was received and reached the model.
C33_Witness ==
    /\ variant = "multi"
    /\ human_agent_present
    /\ last.ev = "_answer"
    /\ last.arg.text = <<"H","E","L","P"," ","M","E"," ","n","o","w">>
    /\ last.arg.ai_assistance_required
    /\ chat_context[Len(chat_context)].content = <<last.arg.text>>

\* C34: a turn handled while human_agent_present is already true creates no
\* create_sip_participant task: the sentinel of a second escalation places no
\* second outbound call.
C34_NoSecondCallLeg ==
    [][ (IsTurn /\ variant \in Escalating /\ human_agent_present)
        => NewSipTasks = <<>> ]_vars

\* C35: a chat event with an empty message leaves the session as it was, in
\* every variant and every state: no task is created, nothing is appended to
\* the context, the model is not invoked, and human_agent_present, the cached
\* frame, the pending follow-ups and the requests keep their values.
C35_EmptyMessageChangesNothing ==
    [][ (IsChat /\ last'.arg = <<>>)
        => ( /\ ready' = ready
             /\ sleeping' = sleeping
             /\ chat_context' = chat_context
             /\ llm_calls' = llm_calls
             /\ human_agent_present' = human_agent_present
             /\ latest_image' = latest_image
             /\ requests' = requests
             /\ sip_requests' = sip_requests
             /\ connected' = connected ) ]_vars

\* C35 witness: an empty message has just been received while a follow-up
\* sleeps and a frame is cached; both are still there and the context holds
\* the system message only.
C35_Witness ==
    /\ last.ev = "message_received"
    /\ last.arg = <<>>
    /\ sleeping = <<EmailValid>>
    /\ latest_image = 1
    /\ ready = <<>>
    /\ chat_context = <<SystemMessage>>
    /\ llm_calls = 0

\* C36: get_tts_engine returns the OpenAI stream adapter, with the configured
\* voice, when the provider is exactly "openai"; for every other provider
\* value it raises ValueError, create_voice_assistant raises with it and no
\* assistant is created.
C36_OnlyOpenAISupported ==
    (last.ev = "create_voice_assistant") =>
        LET config == last.arg.config
        IN  IF config.tts_provider = <<"o","p","e","n","a","i">>
            THEN /\ last.raised = "none"
                 /\ DOMAIN last.arg.assistant = {"llm", "tts", "fnc_ctx", "chat_ctx"}
                 /\ last.arg.assistant.tts.adapter = "tts.StreamAdapter"
                 /\ last.arg.assistant.tts.tts = "openai.TTS"
                 /\ last.arg.assistant.tts.voice = config.openai_tts_voice
            ELSE /\ last.raised = "ValueError"
                 /\ last.arg.assistant = PyNone

\* C36 witness: with the provider "elevenlabs" the construction has just
\* failed with ValueError and there is no assistant.
C36_Witness ==
    /\ last.ev = "create_voice_assistant"
    /\ last.arg.config.tts_provider = <<"e","l","e","v","e","n","l","a","b","s">>
    /\ last.raised = "ValueError"
    /\ last.arg.assistant = PyNone
    /\ handlers = {}

====
